---------------------------- MODULE Spec2Model ----------------------------
(***************************************************************************)
(* A model of the BusyBeaverReduction pipeline: the Turing machine         *)
(* simulator with its runtime filters, the breadth-first enumerator of     *)
(* transition functions with its generation filters, and the template      *)
(* (state permutation) filter applied to complete functions.               *)
(*                                                                         *)
(* Conventions.  A tape is a sequence; the code's 0-based head_position h  *)
(* addresses tape[h + 1].  A TransitionFunction is a record whose field    *)
(* transitions is a function from keys <<state, symbol>> to values         *)
(* <<to_state, to_symbol, direction>>.  The SHA-256 digest of a tape is    *)
(* modelled by the tape itself (a collision-free digest).                  *)
(***************************************************************************)
EXTENDS Integers, Sequences, FiniteSets, TLC

VARIABLES
    \* the simulator
    tm,              \* the TuringMachine being executed
    filter_runtime,  \* the FilterRuntime bundle of the running execute()
    pc,              \* position inside execute(): ready, loop, metrics, done
    resumes,         \* how many times the machine came back from the store
    twin,            \* the machine of the Halt-canonicalised function, stepped along
    \* the enumerator
    all_transitions,           \* GeneratorTransitionFunction.all_transitions
    queue,                     \* the BFS queue of partial functions
    transition_functions_set,  \* the batch being filled
    unfiltered_channel,        \* the batches sent on tx_unfiltered_functions
    filter_generate,           \* the counters of FilterGenerate
    gpc,                       \* position of the enumerator: new, bfs, returned
    \* the template filter
    transition_functions,            \* the batch given to filter_existing_templates
    turing_machines_templates,       \* the templates collected so far
    transition_functions_to_remove,  \* the indexes flagged for removal
    index,                           \* the loop index of the scan
    spc,                             \* position: scan, remove, returned, panicked
    batch,                           \* the batch as it was handed over
    kept,                            \* the positions in batch of what is still held
    \* the translated-cycler filter
    filter_translated_cyclers,  \* the FilterTranslatedCyclers watching tm
    \* the encoding round trips
    codec_subject,  \* the Transition, or the function with its iteration order
    codec_encoded,  \* the String encode() returned
    codec_decoded,  \* what decode() rebuilt from it
    cpc,            \* position of the round trip
    \* the generate-and-filter pipeline
    generator_,      \* the Generator and the position of its thread
    enumerator,      \* the thread spawned by Generator::send_unfiletered
    filter_,         \* the Filter and the position of its thread
    filter_threads,  \* the threads spawned by FilterCompile::filter, in spawn order
    mediator,        \* the Mediator and its position in generate_and_filter
    \* the run-and-insert pipeline
    tm_runner,                \* the TuringMachineRunner and its position in run()
    database_manager_runner   \* the DatabaseManagerRunner and its position

execVars == <<tm, filter_runtime, pc, resumes>>

genVars ==
    <<all_transitions, queue, transition_functions_set, unfiltered_channel,
      filter_generate, gpc>>

symVars ==
    <<transition_functions, turing_machines_templates,
      transition_functions_to_remove, index, spc, batch, kept>>

tcVars == <<filter_translated_cyclers>>

codecVars == <<codec_subject, codec_encoded, codec_decoded, cpc>>

pipeVars ==
    <<generator_, enumerator, filter_, filter_threads, mediator, tm_runner,
      database_manager_runner>>

vars == <<execVars, twin, tcVars, codecVars, pipeVars, genVars, symVars, tcVars, codecVars, pipeVars>>

-----------------------------------------------------------------------------
(* Leaf enumerations *)

LEFT == "LEFT"

RIGHT == "RIGHT"

DIRECTIONS == <<LEFT, RIGHT>>

ALPHABET == <<0, 1>>

StateStart == 0

StateHalt == 101

\* a value that gives RIGHT the number of LEFT
DirectionValueAlwaysZero(d) == 0

\* Direction::value
DirectionValue(d) == IF d = LEFT THEN 0 ELSE 1

\* Direction::transform
DirectionTransform(n) == IF n = 1 THEN RIGHT ELSE LEFT

-----------------------------------------------------------------------------
(* Bounds of the model *)

\* number of logical states of the exhaustively enumerated functions
NumStates == 2

\* how many times one machine is stored unhalted and loaded again
MaxResumes == 1

\* functions of at most this many entries are iterated in every order of
\* their keys; larger ones in the rotations of the key order and of its reverse
MaxPermutedKeys == 3

\* the longest batch of small functions handed to the template filter
MaxBatch == 4

\* number of steps an unfiltered run is followed when asking whether it halts
HaltHorizon == 30

\* the number of transitions of an unfiltered run that is followed step by step
RunBound == 8

-----------------------------------------------------------------------------
(* TransitionFunction *)

\* TransitionFunction::new
NewTransitionFunction(q, s) ==
    [number_of_states |-> q, number_of_symbols |-> s, transitions |-> << >>]

\* an insert under the key (from_symbol, from_state)
add_transition_key_swapped(tf, t) ==
    LET key == <<t.from_symbol, t.from_state>>
        val == <<t.to_state, t.to_symbol, t.direction>>
        old == tf.transitions
    IN  [tf EXCEPT !.transitions =
            [k \in (DOMAIN old) \cup {key} |-> IF k = key THEN val ELSE old[k]]]

\* TransitionFunction::add_transition (HashMap::insert: overwrite on same key)
add_transition(tf, t) ==
    LET key == <<t.from_state, t.from_symbol>>
        val == <<t.to_state, t.to_symbol, t.direction>>
        old == tf.transitions
    IN  [tf EXCEPT !.transitions =
            [k \in (DOMAIN old) \cup {key} |-> IF k = key THEN val ELSE old[k]]]

Transition(fs, fv, ts, tv, d) ==
    [from_state |-> fs, from_symbol |-> fv, to_state |-> ts, to_symbol |-> tv,
     direction |-> d]

StatesOf(q) == 0 .. (q - 1)

KeysOf(q) == StatesOf(q) \X {0, 1}

\* every value a key may take: any target state or Halt, any symbol, any direction
AllValues(q) == (StatesOf(q) \cup {StateHalt}) \X {0, 1} \X {LEFT, RIGHT}

\* every complete transition function over q logical states
AllFunctions(q) ==
    { [number_of_states |-> q, number_of_symbols |-> 2, transitions |-> f] :
        f \in [KeysOf(q) -> AllValues(q)] }

-----------------------------------------------------------------------------
(* TuringMachine *)

MAX_STEPS_TO_RUN == 21

\* TuringMachine::new
NewTuringMachine(tf) ==
    [transition_function |-> tf,
     tape |-> <<0>>,
     tape_increased |-> FALSE,
     head_position |-> 0,
     current_state |-> StateStart,
     halted |-> FALSE,
     steps |-> 0,
     score |-> 0,
     filtered |-> "None"]

\* the move of an earlier revision: at the left edge the head stays and the
\* tape is left alone
move_left_at_edge_ignored(m) ==
    IF m.head_position = 0 THEN m
    ELSE [m EXCEPT !.head_position = m.head_position - 1]

\* Vec::insert(0, 0) / head_position -= 1
move_left(m) ==
    IF m.head_position = 0
    THEN [m EXCEPT !.tape = <<0>> \o m.tape, !.tape_increased = TRUE]
    ELSE [m EXCEPT !.head_position = m.head_position - 1]

\* a move to the right that never extends the tape
move_right_without_push(m) == [m EXCEPT !.head_position = m.head_position + 1]

move_right(m) ==
    LET h == m.head_position + 1
    IN  IF Len(m.tape) - 1 < h
        THEN [m EXCEPT !.head_position = h, !.tape = Append(m.tape, 0),
                       !.tape_increased = TRUE]
        ELSE [m EXCEPT !.head_position = h]

\* a move that does not count the step
move_without_count(m, direction) ==
    IF direction = LEFT THEN move_left(m) ELSE move_right(m)

move_(m, direction) ==
    LET m1 == [m EXCEPT !.steps = m.steps + 1]
    IN  IF direction = LEFT THEN move_left(m1) ELSE move_right(m1)

\* a halting test that looks at the symbol under the head instead of the state
is_halted_on_symbol(m) ==
    IF m.tape[m.head_position + 1] = 1 THEN [m EXCEPT !.halted = TRUE] ELSE m

is_halted(m) ==
    IF m.current_state = StateHalt THEN [m EXCEPT !.halted = TRUE] ELSE m

\* a lookup that folds the state into the logical states
CurrentKeyFolded(m) ==
    <<m.current_state % m.transition_function.number_of_states,
      m.tape[m.head_position + 1]>>

\* the key make_transition looks up
CurrentKey(m) == <<m.current_state, m.tape[m.head_position + 1]>>

HasTransition(m) == CurrentKey(m) \in DOMAIN m.transition_function.transitions

\* TuringMachine::make_transition (the machine after the call)
make_transition(m) ==
    IF HasTransition(m)
    THEN LET t  == m.transition_function.transitions[CurrentKey(m)]
             m1 == [m EXCEPT !.tape_increased = FALSE,
                             !.current_state = t[1],
                             !.tape[m.head_position + 1] = t[2]]
         IN  is_halted(move_(m1, t[3]))
    ELSE m

RECURSIVE CountOnes(_)
CountOnes(tape) ==
    IF tape = << >> THEN 0
    ELSE (IF Head(tape) = 1 THEN 1 ELSE 0) + CountOnes(Tail(tape))

\* TuringMachine::set_score
set_score(m) == [m EXCEPT !.score = m.score + CountOnes(m.tape)]

\* TuringMachine::encode, the configuration the cycler filter records
EncodeMachine(m) == <<m.tape, m.head_position, m.current_state>>

-----------------------------------------------------------------------------
(* Encoding of transitions and transition functions.  A string is modelled *)
(* in split form: an encoded function is the sequence of its "|"-separated *)
(* entries, an entry the sequence of its ","-separated fields, a field the *)
(* sequence of its characters (digits are the numbers 0..9).               *)

\* u8::to_string
RECURSIVE DigitsOf(_)
DigitsOf(n) == IF n < 10 THEN <<n>> ELSE Append(DigitsOf(n \div 10), n % 10)

IsDigit(c) == c \in 0 .. 9

RECURSIVE DigitsValue(_)
DigitsValue(f) ==
    IF f = << >> THEN 0 ELSE 10 * DigitsValue(SubSeq(f, 1, Len(f) - 1)) + f[Len(f)]

\* str::parse::<u8>: the value, or -1 where parse returns Err. One leading
\* "+" (character 43) is skipped, leading zeros count for nothing, and a
\* value above u8::MAX is an Err.
ParseU8(f) ==
    LET digits == IF f # << >> /\ f[1] = 43 THEN Tail(f) ELSE f
    IN  IF digits # << >> /\ (\A i \in 1 .. Len(digits) : IsDigit(digits[i]))
           /\ DigitsValue(digits) <= 255
        THEN DigitsValue(digits)
        ELSE -1

\* Transition::encode
EncodeTransition(t) ==
    <<DigitsOf(t.from_state), DigitsOf(t.from_symbol), DigitsOf(t.to_state),
      DigitsOf(t.to_symbol), DigitsOf(DirectionValue(t.direction))>>

\* Transition::get_from_hashmap
get_from_hashmap(key, val) == Transition(key[1], key[2], val[1], val[2], val[3])

\* TransitionFunction::encode: the entries in the iteration order of the map,
\* which the HashMap leaves unspecified; order is a sequence of the keys
EncodeFunction(tf, order) ==
    [i \in 1 .. Len(order) |->
        EncodeTransition(get_from_hashmap(order[i], tf.transitions[order[i]]))]

\* Transition::decode of a well-formed entry (five parsable fields)
DecodeTransition(e) ==
    Transition(ParseU8(e[1]), ParseU8(e[2]), ParseU8(e[3]), ParseU8(e[4]),
               DirectionTransform(ParseU8(e[5])))

\* TransitionFunction::decode: add every decoded entry to tf
RECURSIVE DecodeFunction(_, _)
DecodeFunction(tf, encoded) ==
    IF encoded = << >> THEN tf
    ELSE DecodeFunction(add_transition(tf, DecodeTransition(Head(encoded))),
                        Tail(encoded))

(* The same encodings as whole Strings: a String is the sequence of its    *)
(* characters, a digit the number 0..9 and a separator its ASCII code.      *)

\* the "," of Transition::encode
Comma == 44

\* the "|" of TransitionFunction::encode
Pipe == 124

\* [String]::join
RECURSIVE Join(_, _)
Join(parts, separator) ==
    IF parts = << >> THEN << >>
    ELSE IF Len(parts) = 1 THEN parts[1]
    ELSE parts[1] \o <<separator>> \o Join(Tail(parts), separator)

\* str::split on a one-character pattern: the empty String gives one empty part
RECURSIVE Split(_, _)
Split(text, separator) ==
    IF \A i \in 1 .. Len(text) : text[i] # separator THEN <<text>>
    ELSE LET at == CHOOSE i \in 1 .. Len(text) :
                       /\ text[i] = separator
                       /\ \A j \in 1 .. i - 1 : text[j] # separator
         IN  <<SubSeq(text, 1, at - 1)>>
             \o Split(SubSeq(text, at + 1, Len(text)), separator)

\* Transition::encode
TransitionEncode(t) == Join(EncodeTransition(t), Comma)

\* Transition::decode: panicked where parse().unwrap() or an index panics
TransitionDecode(text) ==
    LET fields == Split(text, Comma)
    IN  IF (\E i \in 1 .. Len(fields) : ParseU8(fields[i]) = -1) \/ Len(fields) < 5
        THEN [panicked |-> TRUE]
        ELSE [panicked |-> FALSE, transition |-> DecodeTransition(fields)]

\* TransitionFunction::encode, the entries in a given iteration order
TransitionFunctionEncode(tf, order) ==
    Join([i \in 1 .. Len(order) |->
              TransitionEncode(get_from_hashmap(order[i], tf.transitions[order[i]]))],
         Pipe)

\* the for loop of TransitionFunction::decode
RECURSIVE DecodeEach(_, _)
DecodeEach(tf, transitions) ==
    IF transitions = << >> THEN [panicked |-> FALSE, function |-> tf]
    ELSE LET transition_ == TransitionDecode(Head(transitions))
         IN  IF transition_.panicked THEN [panicked |-> TRUE]
             ELSE DecodeEach(add_transition(tf, transition_.transition),
                             Tail(transitions))

\* TransitionFunction::decode
TransitionFunctionDecode(tf, text) == DecodeEach(tf, Split(text, Pipe))

\* all sequences that list every element of S exactly once
RECURSIVE Orders(_)
Orders(S) ==
    IF S = {} THEN {<< >>}
    ELSE UNION { { <<x>> \o o : o \in Orders(S \ {x}) } : x \in S }

\* the keys in increasing order
RECURSIVE SortedKeys(_)
SortedKeys(S) ==
    IF S = {} THEN << >>
    ELSE LET least == CHOOSE x \in S :
                 \A y \in S : x[1] < y[1] \/ (x[1] = y[1] /\ x[2] <= y[2])
         IN  <<least>> \o SortedKeys(S \ {least})

Rotation(seq, r) ==
    [i \in 1 .. Len(seq) |-> seq[((i - 1 + r) % Len(seq)) + 1]]

Reversed(seq) == [i \in 1 .. Len(seq) |-> seq[Len(seq) + 1 - i]]

\* the orders in which a HashMap holding these transitions may be iterated:
\* the hasher is seeded per map, so one map's order says nothing of another's
IterationOrders(tf) ==
    LET keys == DOMAIN tf.transitions
        sorted == SortedKeys(keys)
    IN  IF Cardinality(keys) <= MaxPermutedKeys THEN Orders(keys)
        ELSE {Rotation(sorted, r) : r \in 0 .. Len(sorted) - 1}
             \cup {Rotation(Reversed(sorted), r) : r \in 0 .. Len(sorted) - 1}

-----------------------------------------------------------------------------
(* FilterRuntime: the runtime filter bundle of filter_runtime.rs *)

\* FilterRuntime::new
NewFilterRuntime == [counter |-> 0, history |-> << >>]

\* the long-escapee test rejecting one step early, at counter = Q
filter_long_escapees_early(fr, m) ==
    IF Len(m.tape) = 0 THEN [passed |-> TRUE, filter |-> fr]
    ELSE IF m.tape_increased = FALSE
    THEN [passed |-> TRUE, filter |-> [fr EXCEPT !.counter = 0]]
    ELSE [passed |-> (fr.counter + 1) < m.transition_function.number_of_states,
          filter |-> [fr EXCEPT !.counter = fr.counter + 1]]

\* FilterRuntime::filter_long_escapees: the answer and the bundle afterwards
filter_long_escapees(fr, m) ==
    IF Len(m.tape) = 0 THEN [passed |-> TRUE, filter |-> fr]
    ELSE IF m.tape_increased = FALSE
    THEN [passed |-> TRUE, filter |-> [fr EXCEPT !.counter = 0]]
    ELSE [passed |-> (fr.counter + 1) <= m.transition_function.number_of_states,
          filter |-> [fr EXCEPT !.counter = fr.counter + 1]]

\* FilterRuntime::filter_short_escapees
filter_short_escapees(m) ==
    IF Len(m.tape) = 0 THEN TRUE
    ELSE IF m.tape_increased = FALSE THEN TRUE
    ELSE IF HasTransition(m)
    THEN LET t == m.transition_function.transitions[CurrentKey(m)]
         IN  ~(m.current_state = t[1]
               /\ m.tape[m.head_position + 1] = t[2]
               /\ t[2] = 0
               /\ t[3] = RIGHT)
    ELSE TRUE

\* FilterEscapees::filter_short_escapees of filter_escapees.rs, which no
\* caller uses: the direction of the transition is not looked at
escapees_filter_short_escapees(m) ==
    IF Len(m.tape) = 0 THEN TRUE
    ELSE IF m.tape_increased = FALSE THEN TRUE
    ELSE IF HasTransition(m)
    THEN LET t == m.transition_function.transitions[CurrentKey(m)]
         IN  ~(m.current_state = t[1]
               /\ m.tape[m.head_position + 1] = t[2]
               /\ t[2] = 0)
    ELSE TRUE

InHistory(h, c) == \E i \in 1 .. Len(h) : h[i] = c

\* the cycler test comparing with the most recent configuration only
filter_cyclers_against_last(fr, m) ==
    IF fr.history # << >> /\ fr.history[Len(fr.history)] = EncodeMachine(m)
    THEN [passed |-> FALSE, filter |-> fr]
    ELSE [passed |-> TRUE,
          filter |-> [fr EXCEPT !.history = Append(fr.history, EncodeMachine(m))]]

\* FilterRuntime::filter_cyclers
filter_cyclers(fr, m) ==
    IF InHistory(fr.history, EncodeMachine(m))
    THEN [passed |-> FALSE, filter |-> fr]
    ELSE [passed |-> TRUE,
          filter |-> [fr EXCEPT !.history = Append(fr.history, EncodeMachine(m))]]

\* FilterRuntime::filter_all: the three filters in the order of the && chain,
\* evaluation stopping at the first that fails; verdict is the tag execute()
\* matches on, the tag of the filter that failed; consulted lists the filters
\* that were called, in the order of the calls
filter_all(fr, m) ==
    LET l == filter_long_escapees(fr, m)
    IN  IF ~l.passed
        THEN [verdict |-> "LongEscapee", filter |-> l.filter,
              consulted |-> <<"LongEscapee">>]
        ELSE IF ~filter_short_escapees(m)
        THEN [verdict |-> "ShortEscapee", filter |-> l.filter,
              consulted |-> <<"LongEscapee", "ShortEscapee">>]
        ELSE LET c == filter_cyclers(l.filter, m)
             IN  [verdict |-> IF c.passed THEN "None" ELSE "Cycler",
                  filter |-> c.filter,
                  consulted |-> <<"LongEscapee", "ShortEscapee", "Cycler">>]

-----------------------------------------------------------------------------
(* FilterTranslatedCyclers: the two maps take a key <<state, direction>> to *)
(* a value <<tape position, step>>                                          *)

\* FilterTranslatedCyclers::new
NewFilterTranslatedCyclers == [history |-> << >>, possible_cycler |-> << >>]

\* HashMap::insert
MapInsert(map, key, value) ==
    [k \in (DOMAIN map) \cup {key} |-> IF k = key THEN value ELSE map[k]]

insert_history(f, state, direction, tape_position, step) ==
    [f EXCEPT !.history = MapInsert(@, <<state, direction>>, <<tape_position, step>>)]

insert_possible_cycler(f, state, direction, tape_position, step) ==
    [f EXCEPT !.possible_cycler =
                  MapInsert(@, <<state, direction>>, <<tape_position, step>>)]

\* update_cycler that leaves the history entry as it was
update_cycler_keeping_history(f, m, direction) ==
    LET key == <<m.current_state, direction>>
    IN  IF key \in DOMAIN f.possible_cycler
        THEN insert_possible_cycler(f, m.current_state, direction,
                                    m.head_position, m.steps)
        ELSE f

\* FilterTranslatedCyclers::update_cycler
update_cycler(f, m, direction) ==
    LET key == <<m.current_state, direction>>
    IN  IF key \in DOMAIN f.possible_cycler
        THEN LET entry == f.possible_cycler[key]
             IN  insert_possible_cycler(
                     insert_history(f, m.current_state, direction, entry[1], entry[2]),
                     m.current_state, direction, m.head_position, m.steps)
        ELSE f

Abs(n) == IF n < 0 THEN -n ELSE n

\* FilterTranslatedCyclers::check_possible_cycler.  The positions are usize:
\* a growth to the RIGHT is recorded at the last index of a tape that never
\* shrinks and a growth to the LEFT at index 0, so no difference taken here
\* is negative.
check_possible_cycler(f, m, direction) ==
    LET history_appearence == f.history[<<m.current_state, direction>>]
        cycler_appearence == f.possible_cycler[<<m.current_state, direction>>]
    IN  IF m.steps - cycler_appearence[2]
               # cycler_appearence[2] - history_appearence[2]
        THEN FALSE
        ELSE IF Abs(m.head_position - cycler_appearence[1])
                    # Abs(cycler_appearence[1] - history_appearence[1])
        THEN FALSE
        ELSE LET distance == m.head_position - cycler_appearence[1] + 1
                 direction_factor == IF direction = RIGHT THEN 1 ELSE -1
             IN  \A i \in 0 .. (distance - 1) :
                     m.tape[history_appearence[1] + i * direction_factor + 1]
                         = m.tape[cycler_appearence[1] + i * direction_factor + 1]

\* FilterTranslatedCyclers::filter: the answer and the filter afterwards
translated_cyclers_filter(f, m) ==
    IF m.tape_increased = FALSE THEN [passed |-> TRUE, filter |-> f]
    ELSE LET direction == IF m.head_position = 0 THEN LEFT ELSE RIGHT
             key == <<m.current_state, direction>>
         IN  IF key \notin DOMAIN f.history
             THEN [passed |-> TRUE,
                   filter |-> insert_history(f, m.current_state, direction,
                                             m.head_position, m.steps)]
             ELSE IF key \in DOMAIN f.possible_cycler
             THEN LET check_cycler == check_possible_cycler(f, m, direction)
                  IN  [passed |-> ~check_cycler,
                       filter |-> IF check_cycler = FALSE
                                  THEN update_cycler(f, m, direction)
                                  ELSE f]
             ELSE [passed |-> TRUE,
                   filter |-> insert_possible_cycler(f, m.current_state, direction,
                                                     m.head_position, m.steps)]

-----------------------------------------------------------------------------
(* FilterGenerate: the filters applied to partially generated functions *)

RECURSIVE Pow(_, _)
Pow(b, e) == IF e = 0 THEN 1 ELSE b * Pow(b, e - 1)

\* the candidates per key counted without the transition into Halt
maximum_possibilites_without_halt(q) == q * Len(ALPHABET) * Len(DIRECTIONS)

\* the candidates per key: every ordinary target, symbol and direction, and
\* the single transition into Halt
maximum_possibilites_for_entry(q) == q * Len(ALPHABET) * Len(DIRECTIONS) + 1

\* FilterGenerate::new
NewFilterGenerate(number_of_states, alphabet_size, directions_size) ==
    LET maximum_entries == number_of_states * alphabet_size
        original == alphabet_size * directions_size * (number_of_states + 1)
        reduced == number_of_states * alphabet_size * directions_size + 1
    IN  [halting_skippers |-> Pow(original, maximum_entries) - Pow(reduced, maximum_entries),
         start_state_loopers |-> 0,
         neighbour_state_loopers |-> 0,
         naive_beavers |-> 0,
         turing_machines_size |-> Pow(original, maximum_entries),
         maximum_entries |-> maximum_entries,
         maximum_possibilies_for_entry |-> reduced]

\* a rejection counted as the one function that was looked at
get_transition_function_filtered_as_one(fg, tf) == 1

\* FilterGenerate::get_transition_function_filtered
get_transition_function_filtered(fg, tf) ==
    Pow(fg.maximum_possibilies_for_entry,
        fg.maximum_entries - Cardinality(DOMAIN tf.transitions))

\* FilterGenerate::filter_start_state_moves_into_loop
filter_start_state_moves_into_loop(tf) ==
    IF <<StateStart, 0>> \in DOMAIN tf.transitions
    THEN ~(tf.transitions[<<StateStart, 0>>][1] = StateStart)
    ELSE TRUE

\* the halting test reading the entry of (0, 1) instead of (0, 0)
filter_moves_to_halting_state_on_one(tf) ==
    IF <<StateStart, 1>> \in DOMAIN tf.transitions
    THEN ~(tf.transitions[<<StateStart, 1>>][1] = StateHalt)
    ELSE TRUE

\* FilterGenerate::filter_moves_to_halting_state
filter_moves_to_halting_state(tf) ==
    IF <<StateStart, 0>> \in DOMAIN tf.transitions
    THEN ~(tf.transitions[<<StateStart, 0>>][1] = StateHalt)
    ELSE TRUE

\* the neighbour test answering false while the neighbour has no entry yet
filter_moves_into_neighbour_loop_unfilled(tf) ==
    IF <<StateStart, 0>> \in DOMAIN tf.transitions
    THEN LET start == tf.transitions[<<StateStart, 0>>]
             next_state_key == <<start[1], 0>>
         IN  IF next_state_key \in DOMAIN tf.transitions
             THEN LET t == tf.transitions[next_state_key]
                  IN  ~(t[1] = next_state_key[1] /\ t[3] = start[3])
             ELSE FALSE
    ELSE TRUE

\* the neighbour test without the comparison of the two directions
filter_moves_into_neighbour_any_direction(tf) ==
    IF <<StateStart, 0>> \in DOMAIN tf.transitions
    THEN LET start == tf.transitions[<<StateStart, 0>>]
             next_state_key == <<start[1], 0>>
         IN  IF next_state_key \in DOMAIN tf.transitions
             THEN ~(tf.transitions[next_state_key][1] = next_state_key[1])
             ELSE TRUE
    ELSE TRUE

\* FilterGenerate::filter_moves_into_neighbour_loop
filter_moves_into_neighbour_loop(tf) ==
    IF <<StateStart, 0>> \in DOMAIN tf.transitions
    THEN LET start == tf.transitions[<<StateStart, 0>>]
             next_state_key == <<start[1], 0>>
         IN  IF next_state_key \in DOMAIN tf.transitions
             THEN LET t == tf.transitions[next_state_key]
                  IN  ~(t[1] = next_state_key[1] /\ t[3] = start[3])
             ELSE TRUE
    ELSE TRUE

\* FilterGenerate::filter_all: the answer and the counters afterwards
generate_filter_all(fg, tf) ==
    IF filter_start_state_moves_into_loop(tf) = FALSE
    THEN [passed |-> FALSE,
          filter |-> [fg EXCEPT !.start_state_loopers =
                         @ + get_transition_function_filtered(fg, tf)]]
    ELSE IF filter_moves_into_neighbour_loop(tf) = FALSE
    THEN [passed |-> FALSE,
          filter |-> [fg EXCEPT !.neighbour_state_loopers =
                         @ + get_transition_function_filtered(fg, tf)]]
    ELSE IF filter_moves_to_halting_state(tf) = FALSE
    THEN [passed |-> FALSE,
          filter |-> [fg EXCEPT !.naive_beavers =
                         @ + get_transition_function_filtered(fg, tf)]]
    ELSE [passed |-> TRUE, filter |-> fg]

-----------------------------------------------------------------------------
(* GeneratorTransitionFunction: the enumeration of the transition functions *)

BATCH_SIZE == 100

\* the states numbered from 1
states_from_one(q) == [i \in 1 .. q |-> i]

\* GeneratorTransitionFunction::new: the states 0 .. n-1, and with Halt
states(q) == [i \in 1 .. q |-> i - 1]

states_final(q) == Append(states(q), StateHalt)

\* a collapsed transition into Halt that writes 0
HaltTransitionWritesZero == <<StateHalt, 0, RIGHT>>

\* the transition into Halt that stands for all of them
HaltTransitionValue == <<StateHalt, 1, RIGHT>>

\* the body of the to_state loop of generate_all_transitions
TransitionsInto(from_state, from_symbol, to_state) ==
    IF to_state = StateHalt
    THEN <<Transition(from_state, from_symbol, HaltTransitionValue[1],
                      HaltTransitionValue[2], HaltTransitionValue[3])>>
    ELSE [i \in 1 .. Len(ALPHABET) * Len(DIRECTIONS) |->
             Transition(from_state, from_symbol, to_state,
                        ALPHABET[((i - 1) \div Len(DIRECTIONS)) + 1],
                        DIRECTIONS[((i - 1) % Len(DIRECTIONS)) + 1])]

RECURSIVE TransitionsOfKey(_, _, _)
TransitionsOfKey(from_state, from_symbol, targets) ==
    IF targets = << >> THEN << >>
    ELSE TransitionsInto(from_state, from_symbol, Head(targets))
         \o TransitionsOfKey(from_state, from_symbol, Tail(targets))

RECURSIVE TransitionsOfState(_, _, _)
TransitionsOfState(from_state, symbols, targets) ==
    IF symbols = << >> THEN << >>
    ELSE TransitionsOfKey(from_state, Head(symbols), targets)
         \o TransitionsOfState(from_state, Tail(symbols), targets)

RECURSIVE TransitionsOfStates(_, _)
TransitionsOfStates(sources, targets) ==
    IF sources = << >> THEN << >>
    ELSE TransitionsOfState(Head(sources), ALPHABET, targets)
         \o TransitionsOfStates(Tail(sources), targets)

\* GeneratorTransitionFunction::generate_all_transitions
generate_all_transitions(q) == TransitionsOfStates(states(q), states_final(q))

\* the for loop that fills the queue with the functions of one transition;
\* acc holds the queue and the filter counters
RECURSIVE InitialiseQueue(_, _, _, _)
InitialiseQueue(q, transitions, indexes, acc) ==
    IF indexes = << >> THEN acc
    ELSE LET transition_function ==
                 add_transition(NewTransitionFunction(q, Len(ALPHABET)),
                                transitions[Head(indexes) + 1])
             r == generate_filter_all(acc.filter, transition_function)
         IN  InitialiseQueue(q, transitions, Tail(indexes),
                 [queue |-> IF r.passed THEN Append(acc.queue, transition_function)
                            ELSE acc.queue,
                  filter |-> r.filter])

\* the for loop that extends a popped function by the candidates of its next key
RECURSIVE ExtendFunction(_, _, _, _)
ExtendFunction(transition_function, transitions, indexes, acc) ==
    IF indexes = << >> THEN acc
    ELSE LET t == transitions[Head(indexes) + 1]
             transition_key == <<t.from_state, t.from_symbol>>
         IN  IF transition_key \notin DOMAIN transition_function.transitions
             THEN LET extended == add_transition(transition_function, t)
                      r == generate_filter_all(acc.filter, extended)
                  IN  ExtendFunction(transition_function, transitions, Tail(indexes),
                          [queue |-> IF r.passed THEN Append(acc.queue, extended)
                                     ELSE acc.queue,
                           filter |-> r.filter])
             ELSE ExtendFunction(transition_function, transitions, Tail(indexes), acc)

\* the half-open range a .. b-1 as the sequence a, a+1, ..
Range(a, b) == [i \in 1 .. (b - a) |-> a + i - 1]

-----------------------------------------------------------------------------
(* FilterCompile: the filters applied to completely generated functions *)

\* FilterCompile::filter_no_moves_to_halting_state
filter_no_moves_to_halting_state(tf) ==
    \E k \in DOMAIN tf.transitions : tf.transitions[k][1] = StateHalt

\* FilterCompile::filter_no_symbol_writing
filter_no_symbol_writing(tf) ==
    \E k \in DOMAIN tf.transitions : tf.transitions[k][2] = 1

\* the two tests joined by "or" instead of "and"
compile_filter_either(tf) ==
    filter_no_moves_to_halting_state(tf) \/ filter_no_symbol_writing(tf)

\* FilterCompile::filter_all
compile_filter_all(tf) ==
    filter_no_moves_to_halting_state(tf) /\ filter_no_symbol_writing(tf)

\* FilterCompile::retrieve_template. A template entry is the regular
\* expression (\d),from_symbol,(\d),to_symbol,direction, kept here by its
\* three literal parts, with the two states of the transition it came from.
\* The entries come in the iteration order of the function's HashMap.
retrieve_template(tf, order) ==
    [i \in 1 .. Len(order) |->
        LET key == order[i]
            value == tf.transitions[key]
        IN  [regex |-> [from_symbol |-> DigitsOf(key[2]),
                        to_symbol |-> DigitsOf(value[2]),
                        direction |-> DigitsOf(DirectionValue(value[3]))],
             from_state |-> key[1],
             to_state |-> value[1]]]

IsPrefix(p, f) == Len(p) <= Len(f) /\ SubSeq(f, 1, Len(p)) = p

\* the expression matches inside one encoded transition: it has four commas,
\* an encoded transition has four, and no match spans a "|", so a match
\* starts in the first field and ends in the fifth. (\d) takes one digit:
\* the last one of the first field, and the whole of the third.
RegexMatchesEntry(regex, e) ==
    /\ Len(e) = 5
    /\ e[1] # << >>
    /\ IsDigit(e[1][Len(e[1])])
    /\ e[2] = regex.from_symbol
    /\ Len(e[3]) = 1
    /\ IsDigit(e[3][1])
    /\ e[4] = regex.to_symbol
    /\ IsPrefix(regex.direction, e[5])

\* Regex::is_match
is_match(regex, encoded) ==
    \E i \in 1 .. Len(encoded) : RegexMatchesEntry(regex, encoded[i])

\* Regex::captures: the two groups of the leftmost match
captures(regex, encoded) ==
    LET i == CHOOSE i \in 1 .. Len(encoded) :
                 /\ RegexMatchesEntry(regex, encoded[i])
                 /\ \A j \in 1 .. i - 1 : ~RegexMatchesEntry(regex, encoded[j])
        e == encoded[i]
    IN  <<<<e[1][Len(e[1])]>>, e[3]>>

\* what a match leaves of its transition: the text before and after the match
MatchRemainder(regex, e) ==
    <<SubSeq(e[1], 1, Len(e[1]) - 1)
      \o SubSeq(e[5], Len(regex.direction) + 1, Len(e[5]))>>

\* Regex::replace_all with the empty string
replace_all(regex, encoded) ==
    [i \in 1 .. Len(encoded) |->
        IF RegexMatchesEntry(regex, encoded[i])
        THEN MatchRemainder(regex, encoded[i])
        ELSE encoded[i]]

\* str::as_bytes()[0] of a captured digit
FirstByte(text) == 48 + text[1]

\* the loop over the expressions of one template; the answer is template_matched
RECURSIVE MatchTemplate(_, _, _)
MatchTemplate(template, encoded, states_mapping) ==
    IF template = << >> THEN TRUE
    ELSE LET transition_regex == Head(template)
         IN  IF ~is_match(transition_regex.regex, encoded) THEN FALSE
             ELSE LET found == captures(transition_regex.regex, encoded)
                      from_state == FirstByte(found[1])
                      to_state == FirstByte(found[2])
                      from_key == transition_regex.from_state
                      to_key == transition_regex.to_state
                  IN  IF from_key \in DOMAIN states_mapping
                         /\ states_mapping[from_key] # from_state
                      THEN FALSE
                      ELSE LET mapping_1 ==
                                   [k \in DOMAIN states_mapping \cup {from_key} |->
                                       IF k \in DOMAIN states_mapping
                                       THEN states_mapping[k] ELSE from_state]
                           IN  IF to_key \in DOMAIN mapping_1
                                  /\ mapping_1[to_key] # to_state
                               THEN FALSE
                               ELSE MatchTemplate(Tail(template),
                                        replace_all(transition_regex.regex, encoded),
                                        [k \in DOMAIN mapping_1 \cup {to_key} |->
                                            IF k \in DOMAIN mapping_1
                                            THEN mapping_1[k] ELSE to_state])

\* FilterCompile::filter_against_templates: false when a template matches
RECURSIVE filter_against_templates(_, _, _)
filter_against_templates(tf, order, templates) ==
    IF templates = << >> THEN TRUE
    ELSE IF MatchTemplate(Head(templates), EncodeFunction(tf, order), << >>)
         THEN FALSE
         ELSE filter_against_templates(tf, order, Tail(templates))

\* Vec::remove of the element at a 0-based index
RemoveAt(seq, i) == SubSeq(seq, 1, i) \o SubSeq(seq, i + 2, Len(seq))

-----------------------------------------------------------------------------
(* Persistence of an executed machine and the resume path *)

\* the columns DatabaseManager stores for a machine; order is the iteration
\* order of the function's map when it was encoded
StoredRow(m, order) ==
    [transition_function |-> EncodeFunction(m.transition_function, order),
     number_of_states |-> m.transition_function.number_of_states,
     number_of_symbols |-> m.transition_function.number_of_symbols,
     halted |-> m.halted,
     steps |-> m.steps,
     score |-> m.score]

\* DatabaseManager::mysqlrow_to_turing_machine
mysqlrow_to_turing_machine(row) ==
    LET tf == DecodeFunction(
                  NewTransitionFunction(row.number_of_states, row.number_of_symbols),
                  row.transition_function)
    IN  [NewTuringMachine(tf) EXCEPT !.halted = row.halted,
                                     !.steps = row.steps,
                                     !.score = row.score]

-----------------------------------------------------------------------------
(* The machines given to the simulator *)

\* the 3-state machine that halts after exactly 21 transitions
ThreeStateChampion ==
    [number_of_states |-> 3, number_of_symbols |-> 2,
     transitions |->
        (<<0, 0>> :> <<1, 1, RIGHT>>) @@ (<<0, 1>> :> <<StateHalt, 1, RIGHT>>) @@
        (<<1, 0>> :> <<1, 1, LEFT>>)  @@ (<<1, 1>> :> <<2, 0, RIGHT>>) @@
        (<<2, 0>> :> <<2, 1, LEFT>>)  @@ (<<2, 1>> :> <<0, 1, LEFT>>)]

\* a 4-state machine whose 22nd transition is its halting one
LateHalter ==
    [number_of_states |-> 4, number_of_symbols |-> 2,
     transitions |->
        (<<0, 0>> :> <<2, 1, RIGHT>>) @@ (<<0, 1>> :> <<1, 1, LEFT>>) @@
        (<<1, 0>> :> <<2, 0, LEFT>>)  @@ (<<1, 1>> :> <<3, 0, LEFT>>) @@
        (<<2, 0>> :> <<0, 1, LEFT>>)  @@ (<<2, 1>> :> <<2, 1, RIGHT>>) @@
        (<<3, 0>> :> <<2, 0, RIGHT>>) @@ (<<3, 1>> :> <<StateHalt, 1, RIGHT>>)]

\* the 2-state champion of the scenario list
TwoStateChampion ==
    [number_of_states |-> 2, number_of_symbols |-> 2,
     transitions |->
        (<<0, 0>> :> <<1, 1, RIGHT>>) @@ (<<0, 1>> :> <<1, 1, LEFT>>) @@
        (<<1, 0>> :> <<0, 1, LEFT>>)  @@ (<<1, 1>> :> <<StateHalt, 1, RIGHT>>)]

\* a 3-state machine that halts with its 14th transition after extending
\* the tape to the left in state 2 with its 1st, 6th and 11th transition
LeftGrowthHalter ==
    [number_of_states |-> 3, number_of_symbols |-> 2,
     transitions |->
        (<<0, 0>> :> <<2, 0, LEFT>>)  @@ (<<0, 1>> :> <<StateHalt, 1, RIGHT>>) @@
        (<<1, 0>> :> <<1, 0, LEFT>>)  @@ (<<1, 1>> :> <<0, 1, RIGHT>>) @@
        (<<2, 0>> :> <<1, 1, RIGHT>>) @@ (<<2, 1>> :> <<2, 1, LEFT>>)]

ExecInputs ==
    AllFunctions(NumStates) \cup {TwoStateChampion, ThreeStateChampion, LateHalter}

-----------------------------------------------------------------------------
(* TuringMachine::execute, one action per step of its control flow *)

\* the loop test with the cap itself still inside the loop
LoopConditionInclusive(m) == m.halted # TRUE /\ m.steps <= MAX_STEPS_TO_RUN

\* the loop condition of execute()
LoopCondition(m) == m.halted # TRUE /\ m.steps < MAX_STEPS_TO_RUN

\* a new filter bundle and the first make_transition
ExecuteStart ==
    /\ pc = "ready"
    /\ filter_runtime' = NewFilterRuntime
    /\ tm' = make_transition(tm)
    /\ pc' = "loop"
    /\ UNCHANGED <<resumes, twin, tcVars, codecVars, pipeVars, genVars,
                   symVars>>

\* one iteration of the while loop: consult the filters, then step or break
ExecuteIteration ==
    /\ pc = "loop"
    /\ LoopCondition(tm)
    /\ LET r == filter_all(filter_runtime, tm)
       IN  /\ filter_runtime' = r.filter
           /\ IF r.verdict # "None"
              THEN /\ tm' = [tm EXCEPT !.filtered = r.verdict]
                   /\ pc' = "metrics"
              ELSE /\ tm' = make_transition(tm)
                   /\ pc' = "loop"
    /\ UNCHANGED <<resumes, twin, tcVars, codecVars, pipeVars, genVars,
                   symVars>>

\* the loop condition fails
ExecuteLoopExit ==
    /\ pc = "loop"
    /\ ~LoopCondition(tm)
    /\ pc' = "metrics"
    /\ UNCHANGED <<tm, filter_runtime, resumes, twin, tcVars, codecVars,
                   pipeVars, genVars, symVars>>

\* set_score (set_runtime records wall time only)
ExecuteMetrics ==
    /\ pc = "metrics"
    /\ tm' = set_score(tm)
    /\ pc' = "done"
    /\ UNCHANGED <<filter_runtime, resumes, twin, tcVars, codecVars, pipeVars,
                   genVars, symVars>>

\* the executed machine is stored; a later run selects the rows with
\* halted = FALSE, rebuilds the machine and executes it again
Resume ==
    /\ pc = "done"
    /\ tm.halted = FALSE
    /\ resumes < MaxResumes
    /\ \E order \in IterationOrders(tm.transition_function) :
          tm' = mysqlrow_to_turing_machine(StoredRow(tm, order))
    /\ pc' = "ready"
    /\ resumes' = resumes + 1
    /\ UNCHANGED <<filter_runtime, twin, tcVars, codecVars, pipeVars, genVars,
                   symVars>>

\* the enumerator and the template filter at rest
GenIdle ==
    /\ all_transitions = << >>
    /\ queue = << >>
    /\ transition_functions_set = << >>
    /\ unfiltered_channel = << >>
    /\ filter_generate = NewFilterGenerate(NumStates, Len(ALPHABET), Len(DIRECTIONS))
    /\ gpc = "idle"

SymIdle ==
    /\ transition_functions = << >>
    /\ turing_machines_templates = << >>
    /\ transition_functions_to_remove = << >>
    /\ index = 0
    /\ spc = "idle"
    /\ batch = << >>
    /\ kept = << >>

\* the simulator at rest
ExecIdle ==
    /\ tm = NewTuringMachine(NewTransitionFunction(NumStates, Len(ALPHABET)))
    /\ filter_runtime = NewFilterRuntime
    /\ pc = "idle"
    /\ resumes = 0
    /\ twin = tm

\* the translated-cycler filter and the pipelines at rest
TcIdle == filter_translated_cyclers = NewFilterTranslatedCyclers

CodecIdle ==
    /\ codec_subject = << >>
    /\ codec_encoded = << >>
    /\ codec_decoded = << >>
    /\ cpc = "idle"

PipeIdle ==
    /\ generator_ = [pc |-> "idle"]
    /\ enumerator = [pc |-> "idle"]
    /\ filter_ = [pc |-> "idle", rx_unfiltered_functions |-> << >>]
    /\ filter_threads = << >>
    /\ mediator = [pc |-> "idle"]
    /\ tm_runner = [pc |-> "idle"]
    /\ database_manager_runner = [pc |-> "idle"]

Init ==
    /\ tm \in {NewTuringMachine(f) : f \in ExecInputs}
    /\ filter_runtime = NewFilterRuntime
    /\ pc = "ready"
    /\ resumes = 0
    /\ twin = tm
    /\ GenIdle
    /\ SymIdle
    /\ TcIdle
    /\ CodecIdle
    /\ PipeIdle

Next ==
    \/ ExecuteStart
    \/ ExecuteIteration
    \/ ExecuteLoopExit
    \/ ExecuteMetrics
    \/ Resume

Spec == Init /\ [][Next]_vars

-----------------------------------------------------------------------------
(* The unfiltered run: make_transition alone, with no filter and no cap *)

RECURSIVE RunFor(_, _)
RunFor(m, n) ==
    IF n = 0 \/ m.halted THEN m ELSE RunFor(make_transition(m), n - 1)

\* the function's machine reaches Halt from the blank tape within the horizon
ReachesHalt(tf) == RunFor(NewTuringMachine(tf), HaltHorizon).halted

\* execute() of a freshly constructed machine has returned
FreshlyExecuted == pc = "done" /\ resumes = 0

-----------------------------------------------------------------------------
(* Properties of execute() *)

\* C1: a freshly constructed machine of a complete function that execute()
\* ends with a verdict other than None never reaches Halt when it is run
\* from the blank tape with no filter.
C1_RejectedNeverHalts ==
    (FreshlyExecuted /\ tm.filtered # "None")
        => ~ReachesHalt(tm.transition_function)

\* C2: the two-state champion, executed fresh, halts after exactly 6
\* transitions with four 1s on the tape, score 4 and verdict None.
C2_TwoStateChampion ==
    (FreshlyExecuted /\ tm.transition_function = TwoStateChampion)
        => /\ tm.halted = TRUE
           /\ tm.steps = 6
           /\ CountOnes(tm.tape) = 4
           /\ tm.score = 4
           /\ tm.filtered = "None"

\* the champion has been executed to the end
C2_ChampionExecuted ==
    /\ FreshlyExecuted
    /\ tm.transition_function = TwoStateChampion
    /\ tm.halted = TRUE
    /\ tm.steps = 6

\* C9: a fresh machine never takes more than MAX_STEPS_TO_RUN transitions;
\* when no filter rejects it, execute() returns halted exactly when the
\* unfiltered run reaches Halt within MAX_STEPS_TO_RUN transitions, and
\* otherwise returns not halted with steps = MAX_STEPS_TO_RUN.
C9_StepCap ==
    resumes = 0 =>
        /\ tm.steps <= MAX_STEPS_TO_RUN
        /\ (pc = "done" /\ tm.filtered = "None") =>
               /\ tm.halted = RunFor(NewTuringMachine(tm.transition_function),
                                     MAX_STEPS_TO_RUN).halted
               /\ (tm.halted = FALSE => tm.steps = MAX_STEPS_TO_RUN)

\* a machine that halts only after the cap comes back as a holdout
C9_CutOffAtCap ==
    /\ FreshlyExecuted
    /\ tm.filtered = "None"
    /\ tm.halted = FALSE
    /\ tm.steps = MAX_STEPS_TO_RUN
    /\ ReachesHalt(tm.transition_function)

\* C10: when execute() has returned, the score is the number of cells of the
\* final tape that hold a 1, for a resumed machine as for a fresh one.
C10_ScoreIsOnesOnTape == pc = "done" => tm.score = CountOnes(tm.tape)

\* C11: in every state of execute() of a freshly constructed machine, halted
\* is true exactly when current_state is Halt.
C11_HaltedIffInHalt ==
    resumes = 0 => (tm.halted = TRUE <=> tm.current_state = StateHalt)

\* execute() has returned a machine that halted
C11_ReturnedHalted ==
    /\ FreshlyExecuted
    /\ tm.halted = TRUE
    /\ tm.current_state = StateHalt
    /\ tm.steps > 1

\* C12: at every point of execute(), the head position is a valid index of
\* the tape, the tape is not empty and every cell holds 0 or 1.
C12_HeadOnTape ==
    /\ Len(tm.tape) > 0
    /\ tm.head_position \in 0 .. (Len(tm.tape) - 1)
    /\ \A i \in 1 .. Len(tm.tape) : tm.tape[i] \in {0, 1}

\* the last move appended a cell on the right of a tape that holds a 1 and
\* the head stands on the appended cell
C12_HeadOnAppendedCell ==
    /\ pc = "loop"
    /\ tm.tape_increased = TRUE
    /\ tm.head_position = Len(tm.tape) - 1
    /\ tm.head_position >= 2
    /\ \E i \in 1 .. Len(tm.tape) : tm.tape[i] = 1




\* the order in which the dynamic filters are said to be consulted
ListedOrder == <<"ShortEscapee", "LongEscapee", "Cycler", "TranslatedCycler">>

\* C19: whenever execute() consults the filter bundle, the filters are called
\* in the order ShortEscapee, LongEscapee, Cycler, TranslatedCycler up to the
\* first that rejects, and the verdict is the tag of that filter.
C19_ConsultedInListedOrder ==
    (pc = "loop" /\ LoopCondition(tm)) =>
        LET r == filter_all(filter_runtime, tm)
        IN  /\ IsPrefix(r.consulted, ListedOrder)
            /\ r.verdict # "None" => r.verdict = r.consulted[Len(r.consulted)]
            /\ r.verdict = "None" => r.consulted = ListedOrder

-----------------------------------------------------------------------------
(* A machine run with the translated-cycler filter alone watching it, as in *)
(* the test of filter_translated_cyclers.rs: one make_transition, then the  *)
(* filter before every further one.                                         *)

\* the number of transitions the watched run is followed for
MaxWatchedSteps == 21

WatchedInputs == AllFunctions(NumStates) \cup {LeftGrowthHalter, ThreeStateChampion}

\* turing_machine.make_transition() before the loop
WatchStart ==
    /\ pc = "watch_ready"
    /\ tm' = make_transition(tm)
    /\ pc' = "watch"
    /\ UNCHANGED <<filter_runtime, resumes, twin, tcVars, codecVars, pipeVars,
                   genVars, symVars>>

\* one iteration: the filter, then break or make_transition
WatchIteration ==
    /\ pc = "watch"
    /\ tm.halted # TRUE
    /\ tm.steps < MaxWatchedSteps
    /\ LET r == translated_cyclers_filter(filter_translated_cyclers, tm)
       IN  /\ filter_translated_cyclers' = r.filter
           /\ IF r.passed
              THEN /\ tm' = make_transition(tm)
                   /\ pc' = "watch"
              ELSE /\ tm' = [tm EXCEPT !.filtered = "TranslatedCycler"]
                   /\ pc' = "watch_rejected"
    /\ UNCHANGED <<filter_runtime, resumes, twin, codecVars, pipeVars, genVars,
                   symVars>>

InitWatch ==
    /\ tm \in {NewTuringMachine(f) : f \in WatchedInputs}
    /\ filter_runtime = NewFilterRuntime
    /\ pc = "watch_ready"
    /\ resumes = 0
    /\ twin = tm
    /\ TcIdle
    /\ CodecIdle
    /\ PipeIdle
    /\ GenIdle
    /\ SymIdle

NextWatch == WatchStart \/ WatchIteration

SpecWatch == InitWatch /\ [][NextWatch]_vars

\* C20: a function whose machine the translated-cycler filter rejects at some
\* step of its run from the blank tape never reaches Halt when run unfiltered.
C20_TranslatedCyclerNeverHalts ==
    pc = "watch_rejected" => ~ReachesHalt(tm.transition_function)


-----------------------------------------------------------------------------
(* The round trips encode() / decode() of a Transition and of a function *)

\* u8 values around every change of the number of digits, and the extremes
U8Samples == {0, 1, 2, 9, 10, 11, 99, 100, 101, 200, 255}

TransitionSamples ==
    { Transition(fs, fv, ts, tv, d) :
        fs \in U8Samples, fv \in U8Samples, ts \in U8Samples, tv \in U8Samples,
        d \in {LEFT, RIGHT} }

\* transition.encode()
CodecEncodeTransition ==
    /\ cpc = "transition"
    /\ codec_encoded' = TransitionEncode(codec_subject)
    /\ cpc' = "transition_encoded"
    /\ UNCHANGED <<codec_subject, codec_decoded, execVars, twin, genVars, symVars,
                   tcVars, pipeVars>>

\* Transition::new() and decode(encoded)
CodecDecodeTransition ==
    /\ cpc = "transition_encoded"
    /\ codec_decoded' = TransitionDecode(codec_encoded)
    /\ cpc' = "transition_decoded"
    /\ UNCHANGED <<codec_subject, codec_encoded, execVars, twin, genVars, symVars,
                   tcVars, pipeVars>>

\* transition_function.encode()
CodecEncodeFunction ==
    /\ cpc = "function"
    /\ codec_encoded' =
           TransitionFunctionEncode(codec_subject.function, codec_subject.iteration)
    /\ cpc' = "function_encoded"
    /\ UNCHANGED <<codec_subject, codec_decoded, execVars, twin, genVars, symVars,
                   tcVars, pipeVars>>

\* TransitionFunction::new(q, s) and decode(encoded)
CodecDecodeFunction ==
    /\ cpc = "function_encoded"
    /\ codec_decoded' =
           TransitionFunctionDecode(
               NewTransitionFunction(codec_subject.function.number_of_states,
                                     codec_subject.function.number_of_symbols),
               codec_encoded)
    /\ cpc' = "function_decoded"
    /\ UNCHANGED <<codec_subject, codec_encoded, execVars, twin, genVars, symVars,
                   tcVars, pipeVars>>

InitCodec ==
    /\ \/ /\ codec_subject \in TransitionSamples
          /\ cpc = "transition"
       \/ /\ \E f \in AllFunctions(NumStates) :
                 codec_subject \in { [function |-> f, iteration |-> o] :
                                       o \in IterationOrders(f) }
          /\ cpc = "function"
    /\ codec_encoded = << >>
    /\ codec_decoded = << >>
    /\ ExecIdle
    /\ GenIdle
    /\ SymIdle
    /\ TcIdle
    /\ PipeIdle

NextCodec ==
    \/ CodecEncodeTransition
    \/ CodecDecodeTransition
    \/ CodecEncodeFunction
    \/ CodecDecodeFunction

SpecCodec == InitCodec /\ [][NextCodec]_vars

\* C16: decoding the encoding of a complete function into a new empty
\* function gives the key-value mapping of the function, whatever the order
\* in which its entries were encoded.
C16_FunctionRoundTrip ==
    cpc = "function_decoded" =>
        /\ codec_decoded.panicked = FALSE
        /\ codec_decoded.function.transitions = codec_subject.function.transitions

\* a function with a transition into Halt has gone through the round trip,
\* its entries encoded in another order than that of the keys
C16_HaltFunctionDecoded ==
    /\ cpc = "function_decoded"
    /\ codec_subject.iteration # SortedKeys(KeysOf(NumStates))
    /\ \E k \in KeysOf(NumStates) :
           codec_subject.function.transitions[k][1] = StateHalt
    /\ Len(Split(codec_encoded, Pipe)) = NumStates * Len(ALPHABET)

-----------------------------------------------------------------------------
(* The enumerator: generate_all_transition_functions on the DEQUE branch *)

\* generate_all_transition_functions up to the while loop of
\* generate_all_transition_combiation_dequeue
GenerateStart ==
    /\ gpc = "new"
    /\ LET transitions == IF all_transitions = << >>
                          THEN generate_all_transitions(NumStates)
                          ELSE all_transitions
           acc == InitialiseQueue(NumStates, transitions,
                      Range(0, maximum_possibilites_for_entry(NumStates)),
                      [queue |-> << >>, filter |-> filter_generate])
       IN  /\ all_transitions' = transitions
           /\ queue' = acc.queue
           /\ filter_generate' = acc.filter
    /\ transition_functions_set' = << >>
    /\ gpc' = "bfs"
    /\ UNCHANGED <<unfiltered_channel, execVars, twin, tcVars, codecVars,
                   pipeVars, symVars>>

\* one iteration of the while loop
GenerateIteration ==
    /\ gpc = "bfs"
    /\ Len(queue) # 0
    /\ LET transition_function == Head(queue)
           transition_function_length ==
               Cardinality(DOMAIN transition_function.transitions)
           maximum_number_of_transitions == NumStates * Len(ALPHABET)
           m == maximum_possibilites_for_entry(NumStates)
       IN  IF transition_function_length = maximum_number_of_transitions
           THEN LET pushed == Append(transition_functions_set, transition_function)
                IN  /\ IF Len(pushed) = BATCH_SIZE
                       THEN /\ unfiltered_channel' = Append(unfiltered_channel, pushed)
                            /\ transition_functions_set' = << >>
                       ELSE /\ transition_functions_set' = pushed
                            /\ UNCHANGED unfiltered_channel
                    /\ queue' = Tail(queue)
                    /\ UNCHANGED filter_generate
           ELSE LET acc == ExtendFunction(transition_function, all_transitions,
                               Range(m * transition_function_length,
                                     m * (transition_function_length + 1)),
                               [queue |-> Tail(queue), filter |-> filter_generate])
                IN  /\ queue' = acc.queue
                    /\ filter_generate' = acc.filter
                    /\ UNCHANGED <<transition_functions_set,
                                   unfiltered_channel>>
    /\ UNCHANGED <<all_transitions, gpc, execVars, twin, tcVars, codecVars,
                   pipeVars, symVars>>

\* the queue is empty: the while loop ends and the function returns
GenerateReturn ==
    /\ gpc = "bfs"
    /\ Len(queue) = 0
    /\ gpc' = "returned"
    /\ UNCHANGED <<all_transitions, queue, transition_functions_set,
                   unfiltered_channel, filter_generate, execVars, twin, tcVars, codecVars, pipeVars, symVars>>

InitGen ==
    /\ all_transitions = << >>
    /\ queue = << >>
    /\ transition_functions_set = << >>
    /\ unfiltered_channel = << >>
    /\ filter_generate = NewFilterGenerate(NumStates, Len(ALPHABET), Len(DIRECTIONS))
    /\ gpc = "new"
    /\ ExecIdle
    /\ SymIdle
    /\ TcIdle
    /\ CodecIdle
    /\ PipeIdle

NextGen == GenerateStart \/ GenerateIteration \/ GenerateReturn

SpecGen == InitGen /\ [][NextGen]_vars


-----------------------------------------------------------------------------
(* Properties of the enumerator *)

\* the keys in the order generate_all_transitions visits them
KeyOrder(q) ==
    [i \in 1 .. q * Len(ALPHABET) |->
        <<states(q)[((i - 1) \div Len(ALPHABET)) + 1],
          ALPHABET[((i - 1) % Len(ALPHABET)) + 1]>>]

\* the values a key may take once the transitions into Halt are collapsed
CanonicalValues(q) ==
    (StatesOf(q) \X {0, 1} \X {LEFT, RIGHT}) \cup {<<StateHalt, 1, RIGHT>>}

\* the function restricted to its first n keys
PrefixOf(tf, n) ==
    LET keys == {KeyOrder(tf.number_of_states)[i] : i \in 1 .. n}
    IN  [tf EXCEPT !.transitions = [k \in keys |-> tf.transitions[k]]]

\* the three generation filters all answer true
PassesGenerateFilters(tf) ==
    /\ filter_start_state_moves_into_loop(tf)
    /\ filter_moves_into_neighbour_loop(tf)
    /\ filter_moves_to_halting_state(tf)

\* the complete functions over the canonical values whose every prefix passes
ExpectedFunctions ==
    { tf \in { [number_of_states |-> NumStates,
                number_of_symbols |-> Len(ALPHABET),
                transitions |-> f] :
                  f \in [KeysOf(NumStates) -> CanonicalValues(NumStates)] } :
        \A n \in 1 .. NumStates * Len(ALPHABET) :
            PassesGenerateFilters(PrefixOf(tf, n)) }

RECURSIVE Flatten(_)
Flatten(batches) ==
    IF batches = << >> THEN << >> ELSE Head(batches) \o Flatten(Tail(batches))

\* every function placed so far: in a batch already sent or in the batch vector
Placed == Flatten(unfiltered_channel) \o transition_functions_set

\* C3: when the enumeration has returned, the functions placed (sent in a
\* batch or still in the batch vector) are exactly the complete functions over
\* the Halt-collapsed candidates whose every key-order prefix passes
\* FilterGenerate::filter_all, each placed once.
C3_PlacesExactlyTheExpected ==
    gpc = "returned" =>
        /\ {Placed[i] : i \in 1 .. Len(Placed)} = ExpectedFunctions
        /\ Len(Placed) = Cardinality(ExpectedFunctions)

\* the enumeration has returned after sending batches and placing more
C3_EnumerationReturned ==
    /\ gpc = "returned"
    /\ Len(unfiltered_channel) > 0
    /\ Len(Placed) > Len(unfiltered_channel) * BATCH_SIZE

\* C4: when the enumeration has returned, no function is left in the batch
\* vector: a last batch shorter than the batch size has been sent too.
C4_PartialBatchFlushed ==
    gpc = "returned" => transition_functions_set = << >>


-----------------------------------------------------------------------------
(* The unfiltered run of a function next to the run of its Halt-collapsed form *)

\* every transition into Halt replaced by the one generate_all_transitions keeps
Canonicalise(tf) ==
    [tf EXCEPT !.transitions =
        [k \in DOMAIN tf.transitions |->
            IF tf.transitions[k][1] = StateHalt THEN HaltTransitionValue
            ELSE tf.transitions[k]]]

\* one make_transition of each machine; on a halted machine it finds no
\* transition and changes nothing
RunStep ==
    /\ pc = "run"
    /\ tm.steps < RunBound
    /\ twin.steps < RunBound
    /\ ~(tm.halted /\ twin.halted)
    /\ tm' = make_transition(tm)
    /\ twin' = make_transition(twin)
    /\ UNCHANGED <<filter_runtime, pc, resumes, genVars, symVars, tcVars,
                   codecVars, pipeVars>>

InitRun ==
    /\ \E f \in AllFunctions(NumStates) :
           /\ tm = NewTuringMachine(f)
           /\ twin = NewTuringMachine(Canonicalise(f))
    /\ filter_runtime = NewFilterRuntime
    /\ pc = "run"
    /\ resumes = 0
    /\ GenIdle
    /\ SymIdle
    /\ TcIdle
    /\ CodecIdle
    /\ PipeIdle

NextRun == RunStep

SpecRun == InitRun /\ [][NextRun]_vars

\* C7: a complete function that the start-state self-loop filter or the
\* neighbour-loop filter of FilterGenerate rejects never reaches Halt when it
\* is run from the blank tape.
C7_GenerationRejectsNeverHalt ==
    (/\ pc = "run"
     /\ \/ filter_start_state_moves_into_loop(tm.transition_function) = FALSE
        \/ filter_moves_into_neighbour_loop(tm.transition_function) = FALSE)
        => /\ tm.halted = FALSE
           /\ tm.current_state # StateHalt

\* a function only the neighbour-loop filter rejects has run to the bound
C7_NeighbourLoopRun ==
    /\ pc = "run"
    /\ filter_start_state_moves_into_loop(tm.transition_function) = TRUE
    /\ filter_moves_into_neighbour_loop(tm.transition_function) = FALSE
    /\ \E k \in DOMAIN tm.transition_function.transitions :
           tm.transition_function.transitions[k][1] = StateHalt
    /\ tm.steps = RunBound

\* C8: the function with its transitions into Halt replaced by (Halt, 1, RIGHT)
\* has halted exactly when the original has, after the same number of steps,
\* and then holds at least as many 1s on its tape.
C8_CanonicalHaltEquivalent ==
    pc = "run" =>
        /\ twin.halted = tm.halted
        /\ twin.steps = tm.steps
        /\ tm.halted = TRUE => CountOnes(twin.tape) >= CountOnes(tm.tape)

\* a function that halts writing 0 to the left, and its collapsed form with
\* one more 1 on the tape
C8_HaltedWithHigherScore ==
    /\ pc = "run"
    /\ tm.halted = TRUE
    /\ twin.halted = TRUE
    /\ twin.transition_function # tm.transition_function
    /\ tm.steps > 1
    /\ CountOnes(twin.tape) > CountOnes(tm.tape)


-----------------------------------------------------------------------------
(* The template filter: FilterCompile::filter_existing_templates *)

RECURSIVE WithTransitions(_, _)
WithTransitions(tf, ts) ==
    IF ts = << >> THEN tf
    ELSE WithTransitions(add_transition(tf, Head(ts)), Tail(ts))

\* the four functions of the test filter_against_templates
transition_function_01 ==
    WithTransitions(NewTransitionFunction(3, 3),
        <<Transition(1, 1, 2, 1, RIGHT), Transition(1, 0, 0, 1, LEFT),
          Transition(2, 1, 1, 1, LEFT), Transition(2, 0, 2, 0, RIGHT)>>)

transition_function_02 ==
    WithTransitions(NewTransitionFunction(3, 3),
        <<Transition(2, 1, 1, 1, RIGHT), Transition(2, 0, 0, 1, LEFT),
          Transition(1, 1, 2, 1, LEFT), Transition(1, 0, 1, 0, RIGHT)>>)

transition_function_03 ==
    WithTransitions(NewTransitionFunction(3, 3),
        <<Transition(2, 1, 1, 1, RIGHT), Transition(2, 0, 0, 1, LEFT),
          Transition(1, 1, 2, 1, LEFT), Transition(1, 0, 1, 0, LEFT)>>)

transition_function_04 ==
    WithTransitions(NewTransitionFunction(3, 3),
        <<Transition(2, 1, 1, 1, RIGHT), Transition(2, 0, 0, 0, LEFT),
          Transition(1, 1, 2, 1, LEFT), Transition(1, 0, 1, 0, RIGHT)>>)

TestBatch ==
    <<transition_function_01, transition_function_02,
      transition_function_03, transition_function_04>>

\* functions of one transition over three states: a transition, the same
\* with states 1 and 2 exchanged, with its two states folded into one, with
\* its source moved to the start state, and one that writes and moves otherwise
SmallFunctions ==
    { WithTransitions(NewTransitionFunction(3, 2), <<t>>) :
        t \in { Transition(1, 1, 2, 1, RIGHT), Transition(2, 1, 1, 1, RIGHT),
                Transition(1, 1, 1, 1, RIGHT), Transition(0, 1, 2, 1, RIGHT),
                Transition(1, 1, 2, 0, LEFT) } }

SmallBatches ==
    UNION { [1 .. n -> SmallFunctions] : n \in 1 .. MaxBatch }

\* the renaming of the logical states by p; Halt is no logical state
Rename(tf, p) ==
    LET keys == DOMAIN tf.transitions
    IN  [tf EXCEPT !.transitions =
            [k \in {<<p[x[1]], x[2]>> : x \in keys} |->
                LET x == CHOOSE x \in keys : <<p[x[1]], x[2]>> = k
                    v == tf.transitions[x]
                IN  <<IF v[1] = StateHalt THEN StateHalt ELSE p[v[1]], v[2], v[3]>>]]

\* the exchange of states 1 and 2 of a three-state function
Swap12 == [x \in StatesOf(3) |-> IF x = 1 THEN 2 ELSE IF x = 2 THEN 1 ELSE x]

\* complete three-state functions with a transition into Halt, and each one
\* next to its renaming by Swap12
SwapBase ==
    { ThreeStateChampion,
      WithTransitions(NewTransitionFunction(3, 2),
          <<Transition(0, 0, 1, 1, RIGHT), Transition(0, 1, 2, 0, LEFT),
            Transition(1, 0, 2, 1, LEFT), Transition(1, 1, StateHalt, 1, RIGHT),
            Transition(2, 0, 0, 1, RIGHT), Transition(2, 1, 1, 0, LEFT)>>) }

SwapBatches ==
    UNION { { <<f, Rename(f, Swap12)>>, <<Rename(f, Swap12), f>> } : f \in SwapBase }

SymBatches == SmallBatches \cup {TestBatch} \cup SwapBatches

\* the functions of a batch, each with an iteration order of its HashMap
RECURSIVE WithOrders(_)
WithOrders(fs) ==
    IF fs = << >> THEN {<< >>}
    ELSE { <<[function |-> Head(fs), iteration |-> o]>> \o rest :
             o \in IterationOrders(Head(fs)), rest \in WithOrders(Tail(fs)) }

\* the body of the first for loop of filter_existing_templates
TemplateScan ==
    /\ spc = "scan"
    /\ index < Len(transition_functions)
    /\ LET current == transition_functions[index + 1]
           filter == filter_against_templates(current.function, current.iteration,
                                              turing_machines_templates)
       IN  IF filter = TRUE
           THEN /\ turing_machines_templates' =
                       Append(turing_machines_templates,
                              retrieve_template(current.function, current.iteration))
                /\ UNCHANGED transition_functions_to_remove
           ELSE /\ transition_functions_to_remove' =
                       Append(transition_functions_to_remove, index)
                /\ UNCHANGED turing_machines_templates
    /\ index' = index + 1
    /\ spc' = IF index + 1 = Len(transition_functions) THEN "remove" ELSE "scan"
    /\ UNCHANGED <<transition_functions, batch, kept, execVars, twin, tcVars,
                   codecVars, pipeVars, genVars>>

\* the body of the second for loop: Vec::remove panics on an index that is
\* not inside the vector
TemplateRemove ==
    /\ spc = "remove"
    /\ transition_functions_to_remove # << >>
    /\ LET at == Head(transition_functions_to_remove)
       IN  IF at < Len(transition_functions)
           THEN /\ transition_functions' = RemoveAt(transition_functions, at)
                /\ kept' = RemoveAt(kept, at)
                /\ spc' = "remove"
           ELSE /\ spc' = "panicked"
                /\ UNCHANGED <<transition_functions, kept>>
    /\ transition_functions_to_remove' = Tail(transition_functions_to_remove)
    /\ UNCHANGED <<turing_machines_templates, index, batch, execVars, twin,
                   tcVars, codecVars, pipeVars, genVars>>

\* return transition_functions
TemplateReturn ==
    /\ spc = "remove"
    /\ transition_functions_to_remove = << >>
    /\ spc' = "returned"
    /\ UNCHANGED <<transition_functions, turing_machines_templates,
                   transition_functions_to_remove, index, batch, kept,
                   execVars, twin, tcVars, codecVars, pipeVars, genVars>>

InitSym ==
    /\ \E fs \in SymBatches : transition_functions \in WithOrders(fs)
    /\ batch = transition_functions
    /\ kept = [i \in 1 .. Len(transition_functions) |-> i]
    /\ turing_machines_templates = << >>
    /\ transition_functions_to_remove = << >>
    /\ index = 0
    /\ spc = "scan"
    /\ ExecIdle
    /\ GenIdle
    /\ TcIdle
    /\ CodecIdle
    /\ PipeIdle

NextSym == TemplateScan \/ TemplateRemove \/ TemplateReturn

SpecSym == InitSym /\ [][NextSym]_vars

\* the bijections of the logical states that keep the start state
StateBijections(q) ==
    { p \in [StatesOf(q) -> StatesOf(q)] :
        /\ p[StateStart] = StateStart
        /\ \A x, y \in StatesOf(q) : p[x] = p[y] => x = y }

\* g is f with its logical states renamed
Equivalent(f, g) ==
    \E p \in StateBijections(f.number_of_states) : Rename(f, p) = g

\* a complete three-state function that the other static filters accept
AcceptedComplete(tf) ==
    /\ DOMAIN tf.transitions = KeysOf(3)
    /\ PassesGenerateFilters(tf)
    /\ compile_filter_all(tf)

\* the batch held two accepted complete functions, one the Swap12 of the other
SwapPairGiven ==
    /\ Len(batch) = 2
    /\ AcceptedComplete(batch[1].function)
    /\ AcceptedComplete(batch[2].function)
    /\ batch[1].function # batch[2].function
    /\ Rename(batch[1].function, Swap12) = batch[2].function

\* C5: of two accepted complete three-state functions that are each other's
\* renaming by the exchange of states 1 and 2, filter_existing_templates
\* returns exactly one.
C5_OneOfSwapPairReturned ==
    (spc = "returned" /\ SwapPairGiven) => Len(transition_functions) = 1

\* C6: a function that filter_existing_templates does not return is the
\* renaming, by a bijection of the logical states that keeps the start state,
\* of an earlier function of the batch that is returned.
C6_RemovedOnlyIfDuplicate ==
    spc = "returned" =>
        \A i \in 1 .. Len(batch) :
            (\A n \in 1 .. Len(kept) : kept[n] # i)
                => \E n \in 1 .. Len(kept) :
                       /\ kept[n] < i
                       /\ Equivalent(batch[kept[n]].function, batch[i].function)

-----------------------------------------------------------------------------
(* The generate-and-filter pipeline: Mediator::generate_and_filter with the  *)
(* Generator thread, the enumeration thread it spawns, the Filter thread and *)
(* the thread FilterCompile::filter spawns for every batch.  The channels    *)
(* are std::sync::mpsc channels made by channel(): a Receiver is modelled    *)
(* by the queue of what was sent and not yet received, a Sender by "Some"    *)
(* while its owner holds it and "None" once dropped.  What the enumeration   *)
(* thread sends is given: the batches it is going to send, in order.         *)

\* the most batches the enumeration thread sends in one pipeline run
MaxPipeBatches == 3

\* the capacity, of a few batches, that a bounded channel between the
\* enumerator and the static filter would have
ChannelCapacity == 2

\* the first for loop of filter_existing_templates, from position index on:
\* the indexes flagged for removal
RECURSIVE ScanTemplates(_, _, _, _)
ScanTemplates(fs, at, templates, to_remove) ==
    IF at = Len(fs) THEN to_remove
    ELSE LET current == fs[at + 1]
         IN  IF filter_against_templates(current.function, current.iteration,
                                         templates)
             THEN ScanTemplates(fs, at + 1,
                      Append(templates,
                             retrieve_template(current.function, current.iteration)),
                      to_remove)
             ELSE ScanTemplates(fs, at + 1, templates, Append(to_remove, at))

\* the second for loop: Vec::remove of every flagged index in turn; the
\* call panics when an index is not inside the vector
RECURSIVE RemoveFlagged(_, _)
RemoveFlagged(fs, to_remove) ==
    IF to_remove = << >> THEN [panicked |-> FALSE, functions |-> fs]
    ELSE IF Head(to_remove) >= Len(fs) THEN [panicked |-> TRUE]
    ELSE RemoveFlagged(RemoveAt(fs, Head(to_remove)), Tail(to_remove))

\* FilterCompile::filter_existing_templates as a whole
filter_existing_templates(fs) ==
    RemoveFlagged(fs, ScanTemplates(fs, 0, << >>, << >>))

\* Vec::retain(filter_all)
RECURSIVE Retain(_)
Retain(fs) ==
    IF fs = << >> THEN << >>
    ELSE (IF compile_filter_all(Head(fs)) THEN <<Head(fs)>> ELSE << >>)
         \o Retain(Tail(fs))

\* the functions of a batch without their iteration orders
Functions(fs) == [i \in 1 .. Len(fs) |-> fs[i].function]

\* a batch with every HashMap iterated from the r-th key of the key order on
WithRotation(fs, r) ==
    [i \in 1 .. Len(fs) |->
        [function |-> fs[i],
         iteration |-> Rotation(SortedKeys(DOMAIN fs[i].transitions), r)]]

\* what the thread of FilterCompile::filter sends for a batch: nothing when
\* filter_existing_templates panics
Forwarded(fs) ==
    LET out == filter_existing_templates(fs)
    IN  IF out.panicked THEN << >> ELSE Functions(out.functions)

\* the function has one entry for every key (s, a), s a logical state and a
\* a symbol, and no other entry
HasEveryKey(tf) ==
    /\ DOMAIN tf.transitions = KeysOf(NumStates)
    /\ Cardinality(DOMAIN tf.transitions) = NumStates * Len(ALPHABET)

\* C18: every function the enumerator places in a batch, and every function
\* the static filter forwards of a batch the enumerator sent, has exactly one
\* entry for each key (s, a) with s in 0 .. Q-1 and a in {0, 1}, and no other.
\* A function is in the batch being filled, or the last of a batch just sent,
\* in the state after it was placed.
C18_ForwardedHaveEveryKey ==
    /\ \A i \in 1 .. Len(transition_functions_set) :
           HasEveryKey(transition_functions_set[i])
    /\ unfiltered_channel # << >> =>
           LET last == unfiltered_channel[Len(unfiltered_channel)]
           IN  \A i \in 1 .. Len(last) : HasEveryKey(last[i])
    /\ gpc = "returned" =>
           \A b \in 1 .. Len(unfiltered_channel) :
               \A r \in 0 .. (NumStates * Len(ALPHABET) - 1) :
                   LET sent == Forwarded(WithRotation(Retain(unfiltered_channel[b]), r))
                   IN  \A i \in 1 .. Len(sent) : HasEveryKey(sent[i])

\* the enumeration has returned, batches were sent and the static filter
\* forwards functions of the last one
C18_BatchesForwarded ==
    /\ gpc = "returned"
    /\ Len(unfiltered_channel) > 1
    /\ Len(unfiltered_channel[Len(unfiltered_channel)]) = BATCH_SIZE
    /\ Forwarded(WithRotation(Retain(unfiltered_channel[Len(unfiltered_channel)]), 0))
           # << >>

(* usize arithmetic.  A usize is 64 bits wide: it is kept as four limbs of  *)
(* 16 bits, least significant first.  An operation answers with its value  *)
(* wrapped to 64 bits and with whether it overflowed: a build with overflow *)
(* checks panics there, a build without goes on with the wrapped value.     *)

LimbBase == 65536

Usize(n) == <<n % LimbBase, (n \div LimbBase) % LimbBase, 0, 0>>

\* limbs * c for a c below 2^15, limb by limb with the carry
UsizeMul(limbs, c) ==
    LET p1 == limbs[1] * c
        p2 == limbs[2] * c + p1 \div LimbBase
        p3 == limbs[3] * c + p2 \div LimbBase
        p4 == limbs[4] * c + p3 \div LimbBase
    IN  [value |-> <<p1 % LimbBase, p2 % LimbBase, p3 % LimbBase, p4 % LimbBase>>,
         overflow |-> p4 \div LimbBase # 0]

\* limbs - n for an n below 2^16, limb by limb with the borrow
UsizeSub(limbs, n) ==
    LET d1 == limbs[1] - n
        d2 == limbs[2] - (IF d1 < 0 THEN 1 ELSE 0)
        d3 == limbs[3] - (IF d2 < 0 THEN 1 ELSE 0)
        d4 == limbs[4] - (IF d3 < 0 THEN 1 ELSE 0)
    IN  [value |-> <<(d1 + LimbBase) % LimbBase, (d2 + LimbBase) % LimbBase,
                     (d3 + LimbBase) % LimbBase, (d4 + LimbBase) % LimbBase>>,
         overflow |-> d4 < 0]

UsizeIsZero(limbs) == \A i \in 1 .. Len(limbs) : limbs[i] = 0

\* one more factor on a power
TimesBase(power, base) ==
    LET product == UsizeMul(power.value, base)
    IN  [value |-> product.value, overflow |-> power.overflow \/ product.overflow]

\* usize::pow; the lower power is bound once and multiplied once
RECURSIVE UsizePow(_, _)
UsizePow(base, exponent) ==
    IF exponent = 0 THEN [value |-> Usize(1), overflow |-> FALSE]
    ELSE CHOOSE power \in { TimesBase(lower, base) :
                                lower \in {UsizePow(base, exponent - 1)} } : TRUE

\* GeneratorTransitionFunction::get_maximum_no_of_transition_functions
get_maximum_no_of_transition_functions(number_of_states) ==
    LET domain_size == number_of_states * Len(ALPHABET)
        codomain_size == (number_of_states + 1) * Len(ALPHABET) * Len(DIRECTIONS)
    IN  UsizePow(codomain_size, domain_size)

\* Generator::filter_status: TRUE when it panics, on an overflow in a build
\* that checks for it and on the division by zero in every build
filter_status_panics(number_of_states, received, overflow_checks) ==
    LET maximum_no_of_transition_functions ==
            get_maximum_no_of_transition_functions(number_of_states)
        filtered_total == UsizeSub(maximum_no_of_transition_functions.value, received)
        times_hundred == UsizeMul(filtered_total.value, 100)
    IN  \/ overflow_checks /\ maximum_no_of_transition_functions.overflow
        \/ overflow_checks /\ filtered_total.overflow
        \/ overflow_checks /\ times_hundred.overflow
        \/ UsizeIsZero(maximum_no_of_transition_functions.value)

\* the numbers of states the pipeline is started with
PipeStates == {NumStates, 7}

\* a complete function with no transition into Halt
NoHaltFunction ==
    [number_of_states |-> 2, number_of_symbols |-> 2,
     transitions |->
        (<<0, 0>> :> <<1, 1, RIGHT>>) @@ (<<0, 1>> :> <<0, 1, LEFT>>) @@
        (<<1, 0>> :> <<0, 1, LEFT>>)  @@ (<<1, 1>> :> <<1, 0, RIGHT>>)]

\* a complete function that halts with its second transition
EarlyHalter ==
    [number_of_states |-> 2, number_of_symbols |-> 2,
     transitions |->
        (<<0, 0>> :> <<1, 1, RIGHT>>) @@ (<<0, 1>> :> <<0, 1, LEFT>>) @@
        (<<1, 0>> :> <<StateHalt, 1, RIGHT>>) @@ (<<1, 1>> :> <<1, 1, LEFT>>)]

PipeBatchSet == { <<TwoStateChampion, NoHaltFunction>>, <<EarlyHalter, TwoStateChampion>> }

\* the sequences of batches of at most n batches
RECURSIVE BatchSequences(_)
BatchSequences(n) ==
    IF n = 0 THEN {<< >>}
    ELSE BatchSequences(n - 1)
         \cup { Append(bs, b) : bs \in BatchSequences(n - 1), b \in PipeBatchSet }

PipeInputs == BatchSequences(MaxPipeBatches)

\* a Sender lives while somebody holds it: the channel is disconnected once
\* the struct field is None and no thread holds a clone
UnfilteredDisconnected ==
    generator_.tx_unfiltered_functions = "None" /\ enumerator.pc # "running"

\* the filtered channel taken as disconnected as soon as the Filter has
\* given up its own Sender, the clones of the per-batch threads not counted
FilteredDisconnectedWithoutClones ==
    filter_.tx_filtered_functions = "None"

FilteredDisconnected ==
    /\ filter_.tx_filtered_functions = "None"
    /\ \A i \in 1 .. Len(filter_threads) :
           filter_threads[i].pc \notin {"running", "send"}

\* the Receiver of a thread goes with the thread
FilteredReceiverGone == generator_.pc \in {"returned", "panicked"}

\* Generator::new in the Generator thread: the number of batches is worked
\* out from get_maximum_no_of_transition_functions (the quotient itself is
\* used nowhere); a panic ends the thread and drops both channel ends
GeneratorNew ==
    /\ generator_.pc = "new"
    /\ IF mediator.overflow_checks
          /\ get_maximum_no_of_transition_functions(mediator.number_of_states).overflow
       THEN generator_' = [generator_ EXCEPT !.pc = "panicked",
                                             !.tx_unfiltered_functions = "None"]
       ELSE generator_' = [generator_ EXCEPT !.pc = "send_unfiletered"]
    /\ UNCHANGED <<enumerator, filter_, filter_threads, mediator, tm_runner,
                   database_manager_runner, execVars, twin, genVars, symVars,
                   tcVars, codecVars>>

\* Generator::send_unfiletered, the generator's side: the clone goes to the
\* spawned thread and the field is replaced by None
send_unfiletered(g) ==
    [g EXCEPT !.pc = "receive_filtered", !.tx_unfiltered_functions = "None"]

\* Generator::generate calls send_unfiletered: the enumeration thread starts
GeneratorSendUnfiltered ==
    /\ generator_.pc = "send_unfiletered"
    /\ enumerator' = IF generator_.tx_unfiltered_functions = "Some"
                     THEN [enumerator EXCEPT !.pc = "running"]
                     ELSE enumerator
    /\ generator_' = send_unfiletered(generator_)
    /\ UNCHANGED <<filter_, filter_threads, mediator, tm_runner,
                   database_manager_runner, execVars, twin, genVars, symVars,
                   tcVars, codecVars>>

\* tx_unfiltered_functions.send(batch).unwrap() in the enumeration thread:
\* the channel has no capacity, the send never waits; it fails, and the
\* unwrap panics, only when the Receiver is gone
EnumeratorSend ==
    /\ enumerator.pc = "running"
    /\ enumerator.batches # << >>
    /\ IF filter_.pc = "returned"
       THEN /\ enumerator' = [enumerator EXCEPT !.pc = "panicked"]
            /\ UNCHANGED filter_
       ELSE /\ enumerator' = [enumerator EXCEPT !.batches = Tail(@)]
            /\ filter_' = [filter_ EXCEPT !.rx_unfiltered_functions =
                                              Append(@, Head(enumerator.batches))]
    /\ UNCHANGED <<generator_, filter_threads, mediator, tm_runner,
                   database_manager_runner, execVars, twin, genVars, symVars,
                   tcVars, codecVars>>

\* generate_all_transition_functions returns: the thread ends and its
\* Sender is dropped
EnumeratorReturn ==
    /\ enumerator.pc = "running"
    /\ enumerator.batches = << >>
    /\ enumerator' = [enumerator EXCEPT !.pc = "finished"]
    /\ UNCHANGED <<generator_, filter_, filter_threads, mediator, tm_runner,
                   database_manager_runner, execVars, twin, genVars, symVars,
                   tcVars, codecVars>>

\* one turn of the for loop of Filter::receive_all_unfiltered: a batch is
\* received and FilterCompile::filter spawns a thread for it with a clone of
\* the Sender
FilterReceive ==
    /\ filter_.pc = "receive"
    /\ filter_.rx_unfiltered_functions # << >>
    /\ filter_' = [filter_ EXCEPT !.rx_unfiltered_functions = Tail(@)]
    /\ filter_threads' =
           IF filter_.tx_filtered_functions = "Some"
           THEN Append(filter_threads,
                       [pc |-> "running",
                        transition_functions |-> Head(filter_.rx_unfiltered_functions)])
           ELSE filter_threads
    /\ UNCHANGED <<generator_, enumerator, mediator, tm_runner,
                   database_manager_runner, execVars, twin, genVars, symVars,
                   tcVars, codecVars>>

\* the iterator ends once the channel is empty and disconnected: the Sender
\* of the filtered channel is replaced by None and the thread ends
FilterReturn ==
    /\ filter_.pc = "receive"
    /\ filter_.rx_unfiltered_functions = << >>
    /\ UnfilteredDisconnected
    /\ filter_' = [filter_ EXCEPT !.pc = "returned", !.tx_filtered_functions = "None"]
    /\ UNCHANGED <<generator_, enumerator, filter_threads, mediator, tm_runner,
                   database_manager_runner, execVars, twin, genVars, symVars,
                   tcVars, codecVars>>

\* the thread of FilterCompile::filter up to its send, for one iteration
\* order of every HashMap: retain and filter_existing_templates, whose panic
\* ends the thread
FilterOutcome(fs) ==
    LET out == filter_existing_templates(fs)
    IN  IF out.panicked
        THEN [pc |-> "panicked", transition_functions |-> << >>]
        ELSE [pc |-> "send", transition_functions |-> Functions(out.functions)]

\* what the thread can come to for each batch, over the iteration orders
FilterOutcomes ==
    [b \in PipeBatchSet |-> { FilterOutcome(fs) : fs \in WithOrders(Retain(b)) }]

FilterThreadFilter ==
    \E i \in 1 .. Len(filter_threads) :
        /\ filter_threads[i].pc = "running"
        /\ \E outcome \in FilterOutcomes[filter_threads[i].transition_functions] :
               filter_threads' = [filter_threads EXCEPT ![i] = outcome]
        /\ UNCHANGED <<generator_, enumerator, filter_, mediator, tm_runner,
                       database_manager_runner, execVars, twin, genVars, symVars,
                       tcVars, codecVars>>

\* tx.send(..).unwrap() of that thread: the send fails, and the unwrap
\* panics, when the Receiver is gone; the Sender is dropped with the thread
FilterThreadSend ==
    \E i \in 1 .. Len(filter_threads) :
        /\ filter_threads[i].pc = "send"
        /\ UNCHANGED <<enumerator, filter_, mediator, tm_runner,
                       database_manager_runner, execVars, twin, genVars, symVars,
                       tcVars, codecVars>>
        /\ IF FilteredReceiverGone
           THEN /\ filter_threads' = [filter_threads EXCEPT ![i].pc = "panicked"]
                /\ UNCHANGED generator_
           ELSE /\ filter_threads' = [filter_threads EXCEPT ![i].pc = "finished"]
                /\ generator_' =
                       [generator_ EXCEPT !.rx_filtered_functions =
                            Append(@, filter_threads[i].transition_functions)]

\* one turn of the for loop of Generator::receive_filtered
GeneratorReceive ==
    /\ generator_.pc = "receive_filtered"
    /\ generator_.rx_filtered_functions # << >>
    /\ generator_' =
           [generator_ EXCEPT
               !.transition_functions = @ \o Head(generator_.rx_filtered_functions),
               !.rx_filtered_functions = Tail(@)]
    /\ UNCHANGED <<enumerator, filter_, filter_threads, mediator, tm_runner,
                   database_manager_runner, execVars, twin, genVars, symVars,
                   tcVars, codecVars>>

\* the iterator ends; filter_status runs and generate returns
GeneratorReturn ==
    /\ generator_.pc = "receive_filtered"
    /\ generator_.rx_filtered_functions = << >>
    /\ FilteredDisconnected
    /\ generator_' =
           [generator_ EXCEPT !.pc =
               IF filter_status_panics(mediator.number_of_states,
                                       Len(generator_.transition_functions),
                                       mediator.overflow_checks)
               THEN "panicked" ELSE "returned"]
    /\ UNCHANGED <<enumerator, filter_, filter_threads, mediator, tm_runner,
                   database_manager_runner, execVars, twin, genVars, symVars,
                   tcVars, codecVars>>

\* filter_handle.join()
MediatorJoinFilter ==
    /\ mediator.pc = "join_filter"
    /\ filter_.pc = "returned"
    /\ mediator' = [mediator EXCEPT !.pc = "join_generator"]
    /\ UNCHANGED <<generator_, enumerator, filter_, filter_threads, tm_runner,
                   database_manager_runner, execVars, twin, genVars, symVars,
                   tcVars, codecVars>>

\* generator_handle.join().unwrap() and make_turing_machines: the unwrap
\* panics when the Generator thread panicked
MediatorJoinGenerator ==
    /\ mediator.pc = "join_generator"
    /\ generator_.pc \in {"returned", "panicked"}
    /\ mediator' =
           IF generator_.pc = "panicked"
           THEN [mediator EXCEPT !.pc = "panicked"]
           ELSE [mediator EXCEPT
                    !.pc = "returned",
                    !.turing_machines =
                        @ \o [i \in 1 .. Len(generator_.transition_functions) |->
                                 NewTuringMachine(generator_.transition_functions[i])]]
    /\ UNCHANGED <<generator_, enumerator, filter_, filter_threads, tm_runner,
                   database_manager_runner, execVars, twin, genVars, symVars,
                   tcVars, codecVars>>

InitPipe ==
    /\ \E q \in PipeStates, checks \in BOOLEAN :
           mediator = [pc |-> "join_filter", number_of_states |-> q,
                       overflow_checks |-> checks, turing_machines |-> << >>]
    /\ generator_ = [pc |-> "new", tx_unfiltered_functions |-> "Some",
                     rx_filtered_functions |-> << >>,
                     transition_functions |-> << >>]
    /\ \E batches \in PipeInputs :
           enumerator = [pc |-> "unspawned", batches |-> batches]
    /\ filter_ = [pc |-> "receive", tx_filtered_functions |-> "Some",
                  rx_unfiltered_functions |-> << >>]
    /\ filter_threads = << >>
    /\ tm_runner = [pc |-> "idle"]
    /\ database_manager_runner = [pc |-> "idle"]
    /\ ExecIdle
    /\ GenIdle
    /\ SymIdle
    /\ TcIdle
    /\ CodecIdle

NextPipe ==
    \/ GeneratorNew
    \/ GeneratorSendUnfiltered
    \/ EnumeratorSend
    \/ EnumeratorReturn
    \/ FilterReceive
    \/ FilterReturn
    \/ FilterThreadFilter
    \/ FilterThreadSend
    \/ GeneratorReceive
    \/ GeneratorReturn
    \/ MediatorJoinFilter
    \/ MediatorJoinGenerator

\* every thread that can take a step is scheduled in the end
SpecPipe ==
    /\ InitPipe
    /\ [][NextPipe]_vars
    /\ WF_vars(GeneratorNew)
    /\ WF_vars(GeneratorSendUnfiltered)
    /\ WF_vars(EnumeratorSend)
    /\ WF_vars(EnumeratorReturn)
    /\ WF_vars(FilterReceive)
    /\ WF_vars(FilterReturn)
    /\ WF_vars(FilterThreadFilter)
    /\ WF_vars(FilterThreadSend)
    /\ WF_vars(GeneratorReceive)
    /\ WF_vars(GeneratorReturn)
    /\ WF_vars(MediatorJoinFilter)
    /\ WF_vars(MediatorJoinGenerator)

\* C14: under fair scheduling generate_and_filter returns in the end, for
\* every number of states: no stage is left waiting on a channel.
C14_GenerateAndFilterReturns == <>(mediator.pc = "returned")

\* C15: the channel between the enumerator and the static filter is bounded:
\* the batches queued in it never exceed a fixed capacity, a producer facing
\* a full channel waits.
C15_UnfilteredChannelBounded ==
    Len(filter_.rx_unfiltered_functions) <= ChannelCapacity

-----------------------------------------------------------------------------
(* Mediator::run_and_insert: the TuringMachineRunner task executes the       *)
(* machines and sends them on the executed channel, the DatabaseManagerRunner *)
(* task receives them.  A machine travels with its position in the input.    *)

\* the most machines handed to one run
MaxDelivered == 3

\* tokio::sync::mpsc::channel(1000)
EXECUTED_CHANNEL_CAPACITY == 1000

\* BATCH_SIZE of database/runner.rs
DATABASE_BATCH_SIZE == 1000

\* a function the runtime filters stop after its first transition
LeftRunner ==
    [number_of_states |-> 2, number_of_symbols |-> 2,
     transitions |->
        (<<0, 0>> :> <<1, 1, LEFT>>)  @@ (<<0, 1>> :> <<0, 0, LEFT>>) @@
        (<<1, 0>> :> <<1, 0, RIGHT>>) @@ (<<1, 1>> :> <<0, 0, LEFT>>)]

DeliverFunctions == {TwoStateChampion, NoHaltFunction, EarlyHalter, LeftRunner}

\* the sequences of at most n different functions
RECURSIVE FunctionSequences(_)
FunctionSequences(n) ==
    IF n = 0 THEN {<< >>}
    ELSE FunctionSequences(n - 1)
         \cup { Append(fs, f) :
                  fs \in FunctionSequences(n - 1),
                  f \in DeliverFunctions }

DeliverInputs ==
    { fs \in FunctionSequences(MaxDelivered) :
        \A i, j \in 1 .. Len(fs) : fs[i] = fs[j] => i = j }

\* the while loop of TuringMachine::execute
RECURSIVE ExecuteLoop(_, _)
ExecuteLoop(fr, m) ==
    IF ~LoopCondition(m) THEN m
    ELSE LET r == filter_all(fr, m)
         IN  IF r.verdict # "None" THEN [m EXCEPT !.filtered = r.verdict]
             ELSE ExecuteLoop(r.filter, make_transition(m))

\* TuringMachine::execute
execute(m) == set_score(ExecuteLoop(NewFilterRuntime, make_transition(m)))

\* the machines of the run after execute
ExecutedMachines == [f \in DeliverFunctions |-> execute(NewTuringMachine(f))]

\* the for loop of run is over after an attempt that only stops short of the
\* last machine
SendLoopFinishedEarly(r) == r.next >= Len(r.turing_machines)

\* the for loop of run has gone through every machine
SendLoopFinished(r) == r.next > Len(r.turing_machines)

\* pool.install: a thread of the pool executes one machine in place
RunnerExecute ==
    /\ tm_runner.pc = "execute"
    /\ \E i \in (1 .. Len(tm_runner.turing_machines)) \ tm_runner.executed :
           tm_runner' =
               [tm_runner EXCEPT
                   !.turing_machines[i] =
                       ExecutedMachines[tm_runner.turing_machines[i].transition_function],
                   !.executed = @ \cup {i}]
    /\ UNCHANGED <<database_manager_runner, generator_, enumerator, filter_,
                   filter_threads, mediator, execVars, twin, genVars, symVars,
                   tcVars, codecVars>>

\* pool.install returns when every machine is executed
RunnerPoolReturn ==
    /\ tm_runner.pc = "execute"
    /\ tm_runner.executed = 1 .. Len(tm_runner.turing_machines)
    /\ tm_runner' = [tm_runner EXCEPT !.pc = "send", !.next = 1]
    /\ UNCHANGED <<database_manager_runner, generator_, enumerator, filter_,
                   filter_threads, mediator, execVars, twin, genVars, symVars,
                   tcVars, codecVars>>

\* one turn of the for loop of run: the counters, then send(..).await, whose
\* error is dropped.  The send waits while the channel is full and fails
\* when the Receiver is gone.
RunnerSend ==
    /\ tm_runner.pc = "send"
    /\ ~SendLoopFinished(tm_runner)
    /\ \/ database_manager_runner.receiver = "dropped"
       \/ Len(database_manager_runner.rx_turing_machines) < EXECUTED_CHANNEL_CAPACITY
    /\ LET turing_machine == tm_runner.turing_machines[tm_runner.next]
       IN  /\ tm_runner' =
                  [tm_runner EXCEPT
                      !.next = @ + 1,
                      !.short_escapers =
                          IF turing_machine.filtered = "ShortEscapee" THEN @ + 1 ELSE @,
                      !.long_escapers =
                          IF turing_machine.filtered = "LongEscapee" THEN @ + 1 ELSE @,
                      !.cyclers =
                          IF turing_machine.filtered = "Cycler" THEN @ + 1 ELSE @,
                      !.translated_cyclers =
                          IF turing_machine.filtered = "TranslatedCycler" THEN @ + 1 ELSE @,
                      !.non_halting_turing_machines_size =
                          IF turing_machine.halted = FALSE THEN @ + 1 ELSE @]
           /\ database_manager_runner' =
                  IF database_manager_runner.receiver = "dropped"
                  THEN database_manager_runner
                  ELSE [database_manager_runner EXCEPT
                           !.rx_turing_machines =
                               Append(@, [position |-> tm_runner.next,
                                          turing_machine |-> turing_machine])]
    /\ UNCHANGED <<generator_, enumerator, filter_, filter_threads, mediator,
                   execVars, twin, genVars, symVars, tcVars, codecVars>>

\* after the loop the Sender is replaced by None and run returns
RunnerDropSender ==
    /\ tm_runner.pc = "send"
    /\ SendLoopFinished(tm_runner)
    /\ tm_runner' = [tm_runner EXCEPT !.pc = "returned",
                                      !.tx_turing_machines = "None"]
    /\ UNCHANGED <<database_manager_runner, generator_, enumerator, filter_,
                   filter_threads, mediator, execVars, twin, genVars, symVars,
                   tcVars, codecVars>>

\* DatabaseManager::new().await: with None the consumer returns at once and
\* its Receiver is dropped with what the channel holds
DatabaseConnect ==
    /\ database_manager_runner.pc = "new"
    /\ \E database \in {"Some", "None"} :
           database_manager_runner' =
               IF database = "Some"
               THEN [database_manager_runner EXCEPT !.pc = "receive"]
               ELSE [database_manager_runner EXCEPT
                        !.pc = "returned", !.receiver = "dropped",
                        !.rx_turing_machines = << >>]
    /\ UNCHANGED <<tm_runner, generator_, enumerator, filter_, filter_threads,
                   mediator, execVars, twin, genVars, symVars, tcVars, codecVars>>

\* one turn of the while let loop: recv().await gave Some(machine)
DatabaseReceive ==
    /\ database_manager_runner.pc = "receive"
    /\ database_manager_runner.rx_turing_machines # << >>
    /\ LET received == Head(database_manager_runner.rx_turing_machines)
           turing_machines == Append(database_manager_runner.turing_machines, received)
       IN  database_manager_runner' =
               [database_manager_runner EXCEPT
                   !.rx_turing_machines = Tail(@),
                   !.received = Append(@, received),
                   !.turing_machines =
                       IF Len(turing_machines) = DATABASE_BATCH_SIZE
                       THEN << >> ELSE turing_machines,
                   !.inserted =
                       IF Len(turing_machines) = DATABASE_BATCH_SIZE
                       THEN @ \o turing_machines ELSE @]
    /\ UNCHANGED <<tm_runner, generator_, enumerator, filter_, filter_threads,
                   mediator, execVars, twin, genVars, symVars, tcVars, codecVars>>

\* recv().await gave None: the channel is empty and its Sender is gone
DatabaseEndOfChannel ==
    /\ database_manager_runner.pc = "receive"
    /\ database_manager_runner.rx_turing_machines = << >>
    /\ tm_runner.tx_turing_machines = "None"
    /\ database_manager_runner' =
           [database_manager_runner EXCEPT !.pc = "returned",
                                           !.end_of_channel = TRUE]
    /\ UNCHANGED <<tm_runner, generator_, enumerator, filter_, filter_threads,
                   mediator, execVars, twin, genVars, symVars, tcVars, codecVars>>

InitDeliver ==
    /\ \E fs \in DeliverInputs :
           tm_runner =
               [pc |-> "execute", tx_turing_machines |-> "Some",
                turing_machines |-> [i \in 1 .. Len(fs) |-> NewTuringMachine(fs[i])],
                inputs |-> fs, executed |-> {}, next |-> 0,
                short_escapers |-> 0, long_escapers |-> 0, cyclers |-> 0,
                translated_cyclers |-> 0, non_halting_turing_machines_size |-> 0]
    /\ database_manager_runner =
           [pc |-> "new", receiver |-> "held", rx_turing_machines |-> << >>,
            turing_machines |-> << >>, received |-> << >>, inserted |-> << >>,
            end_of_channel |-> FALSE]
    /\ generator_ = [pc |-> "idle"]
    /\ enumerator = [pc |-> "idle"]
    /\ filter_ = [pc |-> "idle", rx_unfiltered_functions |-> << >>]
    /\ filter_threads = << >>
    /\ mediator = [pc |-> "idle"]
    /\ ExecIdle
    /\ GenIdle
    /\ SymIdle
    /\ TcIdle
    /\ CodecIdle

NextDeliver ==
    \/ RunnerExecute
    \/ RunnerPoolReturn
    \/ RunnerSend
    \/ RunnerDropSender
    \/ DatabaseConnect
    \/ DatabaseReceive
    \/ DatabaseEndOfChannel

SpecDeliver == InitDeliver /\ [][NextDeliver]_vars

\* the positions of the machines the channel took, in the order it took them
Delivered ==
    LET taken == database_manager_runner.received
                 \o database_manager_runner.rx_turing_machines
    IN  [i \in 1 .. Len(taken) |-> taken[i].position]

-----------------------------------------------------------------------------
(* The single step of the simulator *)

\* a step of execute in which make_transition was called
TransitionApplied ==
    /\ pc \in {"ready", "loop"}
    /\ pc' = "loop"

\* the tape with the symbol of the transition written under the head
Written(m) ==
    [m.tape EXCEPT ![m.head_position + 1] =
        m.transition_function.transitions[CurrentKey(m)][2]]

\* C29: a LEFT move at head_position 0 inserts a 0 at tape[0], leaves the head
\* at 0 and sets tape_increased; a RIGHT move from the last cell appends a 0,
\* puts the head on it and sets tape_increased; every other move changes
\* head_position by exactly one, keeps the length of the tape and leaves
\* tape_increased false; every applied transition adds exactly 1 to steps.
C29_BoundaryMoves ==
    [][TransitionApplied =>
          LET direction == tm.transition_function.transitions[CurrentKey(tm)][3]
          IN  /\ tm'.steps = tm.steps + 1
              /\ IF direction = LEFT /\ tm.head_position = 0
                 THEN /\ tm'.tape = <<0>> \o Written(tm)
                      /\ tm'.head_position = 0
                      /\ tm'.tape_increased = TRUE
                 ELSE IF direction = RIGHT /\ tm.head_position = Len(tm.tape) - 1
                 THEN /\ tm'.tape = Append(Written(tm), 0)
                      /\ tm'.head_position = Len(tm.tape)
                      /\ tm'.tape_increased = TRUE
                 ELSE /\ tm'.tape = Written(tm)
                      /\ tm'.head_position =
                             IF direction = LEFT THEN tm.head_position - 1
                             ELSE tm.head_position + 1
                      /\ tm'.tape_increased = FALSE]_vars

\* a LEFT move at head_position 0 has just inserted a cell, on a tape that
\* had grown before and holds a 1
C29_LeftInsertOnGrownTape ==
    /\ pc = "loop"
    /\ resumes = 0
    /\ tm.tape_increased = TRUE
    /\ tm.head_position = 0
    /\ Len(tm.tape) >= 3
    /\ tm.steps >= 3
    /\ \E i \in 1 .. Len(tm.tape) : tm.tape[i] = 1

\* the side on which the last step added a cell
GrowthDirection(m) == IF m.head_position = 0 THEN LEFT ELSE RIGHT

\* the machine escapes: its last step visited a fresh cell and the transition
\* it is about to take stays in the state, writes 0 and moves the same way
KeepsEscaping(m) ==
    /\ m.tape_increased = TRUE
    /\ HasTransition(m)
    /\ LET t == m.transition_function.transitions[CurrentKey(m)]
       IN  t[1] = m.current_state /\ t[2] = 0 /\ t[3] = GrowthDirection(m)

\* C30: after a step ShortEscapee rejects exactly when the step visited a
\* fresh cell and the transition for (current_state, 0) stays in the state,
\* writes 0 and moves in the direction in which the tape just grew: not when
\* it moves back over visited cells, and to the left as well as to the right.
C30_ShortEscapeeExact ==
    (pc = "loop" /\ LoopCondition(tm))
        => /\ ~filter_short_escapees(tm) <=> KeepsEscaping(tm)
           /\ ~escapees_filter_short_escapees(tm) <=> KeepsEscaping(tm)

-----------------------------------------------------------------------------
(* execute on machines whose function lacks entries *)

\* the functions over q logical states with some keys, not all, filled
PartialFunctions(q) ==
    UNION { { [number_of_states |-> q, number_of_symbols |-> 2, transitions |-> f] :
                f \in [keys -> AllValues(q)] } :
            keys \in (SUBSET KeysOf(q)) \ {{}, KeysOf(q)} }

InitPartial ==
    /\ tm \in {NewTuringMachine(f) : f \in PartialFunctions(NumStates)}
    /\ filter_runtime = NewFilterRuntime
    /\ pc = "ready"
    /\ resumes = 0
    /\ twin = tm
    /\ GenIdle
    /\ SymIdle
    /\ TcIdle
    /\ CodecIdle
    /\ PipeIdle

NextPartial ==
    \/ ExecuteStart
    \/ ExecuteIteration
    \/ ExecuteLoopExit
    \/ ExecuteMetrics

SpecPartial == InitPartial /\ [][NextPartial]_vars

\* b is a with the same tape, head, state, steps and tape_increased
SameConfiguration(a, b) ==
    /\ b.tape = a.tape
    /\ b.head_position = a.head_position
    /\ b.current_state = a.current_state
    /\ b.steps = a.steps
    /\ b.tape_increased = a.tape_increased

\* C25: when the function has no entry for (current_state, tape[head]) and
\* the machine is not in Halt, make_transition leaves tape, head, state and
\* steps as they are and the machine is flagged as halted, so that execute
\* stops with it.
C25_UndefinedTransitionHalts ==
    [][(TransitionApplied /\ ~HasTransition(tm) /\ tm.current_state # StateHalt)
          => /\ SameConfiguration(tm, tm')
             /\ tm'.halted = TRUE]_vars

\* C26: once halted is true, no step of execute, no further make_transition
\* and no further execute changes tape, head_position, current_state, steps
\* or tape_increased.
C26_HaltedIsFrozen ==
    [][tm.halted = TRUE
          => /\ SameConfiguration(tm, tm')
             /\ SameConfiguration(tm, make_transition(tm))
             /\ SameConfiguration(tm, execute(tm))]_vars

\* a machine that halted after several transitions has had its score set
C26_HaltedAndScored ==
    /\ pc = "done"
    /\ resumes = 0
    /\ tm.halted = TRUE
    /\ tm.steps >= 3
    /\ tm.score >= 2

\* ---------------------------------------------------------------------------
\* The two stateless filters applied to one function
\* ---------------------------------------------------------------------------

\* every function over the keys of q states: empty, partial and complete
FilterSubjects(q) ==
    UNION { { [number_of_states |-> q, number_of_symbols |-> 2,
               transitions |-> f] : f \in [keys -> AllValues(q)] }
            : keys \in SUBSET KeysOf(q) }

IsComplete(tf) == DOMAIN tf.transitions = KeysOf(tf.number_of_states)

\* FilterGenerate::filter_all on the function at the head of the queue
GenerateFilterAll ==
    /\ gpc = "filter_ready"
    /\ LET r == generate_filter_all(filter_generate, queue[1])
       IN  /\ filter_generate' = r.filter
           /\ gpc' = IF r.passed THEN "generate_passed" ELSE "generate_rejected"
    /\ UNCHANGED <<all_transitions, queue, transition_functions_set,
                   unfiltered_channel, execVars, twin, tcVars, codecVars,
                   pipeVars, symVars>>

\* FilterCompile::filter_all on the function at the head of the queue
CompileFilterAll ==
    /\ gpc = "filter_ready"
    /\ gpc' = IF compile_filter_all(queue[1])
              THEN "compile_passed" ELSE "compile_rejected"
    /\ UNCHANGED <<all_transitions, queue, transition_functions_set,
                   unfiltered_channel, filter_generate, execVars, twin,
                   tcVars, codecVars, pipeVars, symVars>>

InitFilters ==
    /\ queue \in {<<tf>> : tf \in FilterSubjects(NumStates)}
    /\ all_transitions = << >>
    /\ transition_functions_set = << >>
    /\ unfiltered_channel = << >>
    /\ filter_generate = NewFilterGenerate(NumStates, Len(ALPHABET), Len(DIRECTIONS))
    /\ gpc = "filter_ready"
    /\ ExecIdle
    /\ twin = tm
    /\ TcIdle
    /\ CodecIdle
    /\ PipeIdle
    /\ SymIdle

NextFilters == GenerateFilterAll \/ CompileFilterAll

SpecFilters == InitFilters /\ [][NextFilters]_vars

\* the three cases in which the entry of (0, 0) condemns a function
StartEntryCondemns(tf) ==
    /\ <<StateStart, 0>> \in DOMAIN tf.transitions
    /\ LET start == tf.transitions[<<StateStart, 0>>]
           p == start[1]
           d == start[3]
       IN  \/ p = StateStart
           \/ p = StateHalt
           \/ /\ <<p, 0>> \in DOMAIN tf.transitions
              /\ tf.transitions[<<p, 0>>][1] = p
              /\ tf.transitions[<<p, 0>>][3] = d

\* C27: FilterGenerate::filter_all rejects a function, partial or complete,
\* exactly when (0,0) maps to state 0, or (0,0) maps to (p,_,d) and (p,0) is
\* present and maps to (p,_,d) with the same direction, or (0,0) maps to
\* Halt; a function without the key (0,0), or without the key (p,0), is
\* accepted. A rejection adds to exactly one counter, an acceptance to none.
C27_GenerateFilterExact ==
    gpc \in {"generate_passed", "generate_rejected"} =>
        /\ gpc = "generate_rejected" <=> StartEntryCondemns(queue[1])
        /\ <<StateStart, 0>> \notin DOMAIN queue[1].transitions
               => gpc = "generate_passed"
        /\ gpc = "generate_passed" =>
               filter_generate = NewFilterGenerate(NumStates, Len(ALPHABET),
                                                   Len(DIRECTIONS))

\* a partial function rejected for its neighbour loop alone
C27_PartialNeighbourLoopRejected ==
    /\ gpc = "generate_rejected"
    /\ ~IsComplete(queue[1])
    /\ queue[1].transitions[<<StateStart, 0>>][1] = 1
    /\ filter_generate.neighbour_state_loopers > 0

\* C28: FilterCompile::filter_all rejects a complete function exactly when
\* no entry has to_state = Halt or no entry has to_symbol = 1, and accepts
\* every function with a transition into Halt and a transition writing 1.
C28_CompileFilterExact ==
    (gpc \in {"compile_passed", "compile_rejected"} /\ IsComplete(queue[1])) =>
        LET transitions == queue[1].transitions
            NoHalt == \A k \in DOMAIN transitions : transitions[k][1] # StateHalt
            NoOne == \A k \in DOMAIN transitions : transitions[k][2] # 1
        IN  gpc = "compile_rejected" <=> (NoHalt \/ NoOne)

\* a complete function that halts somewhere and never writes 1 is rejected
C28_HaltingBlankWriterRejected ==
    /\ gpc = "compile_rejected"
    /\ IsComplete(queue[1])
    /\ \E k \in DOMAIN queue[1].transitions :
           queue[1].transitions[k][1] = StateHalt
    /\ \A k \in DOMAIN queue[1].transitions : queue[1].transitions[k][2] = 0

\* ---------------------------------------------------------------------------
\* The order of a batch after filter_existing_templates
\* ---------------------------------------------------------------------------

\* the positions, in input order, of the functions of a batch that matched
\* no template of an earlier function
Unmatched(fs) ==
    LET flagged == ScanTemplates(fs, 0, << >>, << >>)
        IsFlagged(i) == \E n \in 1 .. Len(flagged) : flagged[n] = i - 1
    IN  SelectSeq([i \in 1 .. Len(fs) |-> i], LAMBDA i : ~IsFlagged(i))

\* C24: for every input batch, with any number of matched functions,
\* filter_existing_templates returns exactly the functions that matched no
\* earlier template, in the relative order they had in the input.
C24_BatchOrderPreserved ==
    spc \in {"returned", "panicked"} =>
        /\ spc = "returned"
        /\ kept = Unmatched(batch)
        /\ Functions(transition_functions) =
               [n \in 1 .. Len(kept) |-> batch[kept[n]].function]

\* ---------------------------------------------------------------------------
\* decode applied to Strings that no encode produced
\* ---------------------------------------------------------------------------

\* the most ","-separated fields of a String given to Transition::decode
MaxFields == 6

\* fields: empty, one digit, a value above u8::MAX, the letter x, a signed digit
FieldSamples == {<< >>, <<0>>, <<1>>, <<2>>, <<2, 5, 6>>, <<120>>, <<43, 1>>}

TransitionTexts ==
    { Join(fields, Comma) :
        fields \in UNION { [1 .. n -> FieldSamples] : n \in 1 .. MaxFields } }

\* entries: two encodings, then four fields, six fields, a direction code 2,
\* a letter and the empty String
EntrySamples ==
    { Join(fields, Comma) :
        fields \in { <<<<0>>, <<0>>, <<1>>, <<1>>, <<1>>>>,
                     <<<<1>>, <<0>>, <<1, 0, 1>>, <<1>>, <<0>>>>,
                     <<<<0>>, <<1>>, <<1>>, <<0>>>>,
                     <<<<0>>, <<1>>, <<1>>, <<0>>, <<1>>, <<1>>>>,
                     <<<<1>>, <<1>>, <<0>>, <<1>>, <<2>>>>,
                     <<<<1>>, <<1>>, <<120>>, <<1>>, <<0>>>>,
                     <<<< >>>> } }

FunctionTexts ==
    { Join(entries, Pipe) :
        entries \in UNION { [1 .. n -> EntrySamples] : n \in 1 .. NumStates } }

\* Transition::new() and decode(text)
DecodeTransitionText ==
    /\ cpc = "transition_text"
    /\ codec_decoded' = TransitionDecode(codec_encoded)
    /\ cpc' = "transition_text_decoded"
    /\ UNCHANGED <<codec_subject, codec_encoded, execVars, twin, genVars, symVars,
                   tcVars, pipeVars>>

\* TransitionFunction::new(q, s) and decode(text)
DecodeFunctionText ==
    /\ cpc = "function_text"
    /\ codec_decoded' =
           TransitionFunctionDecode(
               NewTransitionFunction(NumStates, Len(ALPHABET)), codec_encoded)
    /\ cpc' = "function_text_decoded"
    /\ UNCHANGED <<codec_subject, codec_encoded, execVars, twin, genVars, symVars,
                   tcVars, pipeVars>>

InitDecode ==
    /\ \/ /\ codec_encoded \in TransitionTexts
          /\ cpc = "transition_text"
       \/ /\ codec_encoded \in FunctionTexts
          /\ cpc = "function_text"
    /\ codec_subject = << >>
    /\ codec_decoded = << >>
    /\ ExecIdle
    /\ GenIdle
    /\ SymIdle
    /\ TcIdle
    /\ PipeIdle

NextDecode == DecodeTransitionText \/ DecodeFunctionText

SpecDecode == InitDecode /\ [][NextDecode]_vars

\* a String that is no encoding of a Transition: not five fields, a field
\* that is not a number, or a direction code other than 0 and 1
MalformedEntry(text) ==
    LET fields == Split(text, Comma)
    IN  \/ Len(fields) # 5
        \/ \E i \in 1 .. Len(fields) :
               fields[i] = << >> \/ \E j \in 1 .. Len(fields[i]) : ~IsDigit(fields[i][j])
        \/ fields[Len(fields)] \notin {<<0>>, <<1>>}

\* C23: Transition::decode and TransitionFunction::decode of a String that
\* is not a valid encoding (a field that is not a number, fewer or more than
\* five fields, the empty String, a direction code other than 0 and 1) abort,
\* and yield no transition and no entry of the function.
C23_MalformedDecodeAborts ==
    /\ (cpc = "transition_text_decoded" /\ MalformedEntry(codec_encoded))
           => codec_decoded.panicked = TRUE
    /\ (cpc = "function_text_decoded"
           /\ \E i \in 1 .. Len(Split(codec_encoded, Pipe)) :
                  MalformedEntry(Split(codec_encoded, Pipe)[i]))
           => codec_decoded.panicked = TRUE

\* ---------------------------------------------------------------------------
\* Mediator::load_turing_machines.  The mediator record carries, besides the
\* fields of the Mediator, the rows of the table turing_machines that the
\* database holds, the attempts of DatabaseManager::new and the two Options
\* the function matches on.
\* ---------------------------------------------------------------------------

\* the attempts of DatabaseManager::new to open a pool
MAX_RETRIES == 3

\* the row of a machine with the given function and results of a run
RowOf(tf, halted, steps, score) ==
    StoredRow([NewTuringMachine(tf) EXCEPT !.halted = halted, !.steps = steps,
                                           !.score = score],
              SortedKeys(DOMAIN tf.transitions))

\* rows of unhalted and halted machines of two states and of three states
RowSamples ==
    <<RowOf(NoHaltFunction, FALSE, 21, 0),
      RowOf(LeftRunner, FALSE, 2, 1),
      RowOf(TwoStateChampion, TRUE, 6, 4),
      RowOf(EarlyHalter, TRUE, 1, 1),
      RowOf(ThreeStateChampion, FALSE, 5, 3),
      RowOf(ThreeStateChampion, TRUE, 14, 6)>>

StoredTables ==
    { SelectSeq(RowSamples, LAMBDA row : row \in rows) :
        rows \in SUBSET {RowSamples[i] : i \in 1 .. Len(RowSamples)} }

\* the SELECT without its condition halted = FALSE
select_turing_machines_of_size(rows, number_of_states, number_of_symbols) ==
    LET selected == SelectSeq(rows, LAMBDA row :
                        /\ row.number_of_states = number_of_states
                        /\ row.number_of_symbols = number_of_symbols)
    IN  [i \in 1 .. Len(selected) |-> mysqlrow_to_turing_machine(selected[i])]

\* DatabaseManager::select_turing_machines_to_run where the query succeeds
select_turing_machines_to_run(rows, number_of_states, number_of_symbols) ==
    LET selected == SelectSeq(rows, LAMBDA row :
                        /\ row.number_of_states = number_of_states
                        /\ row.number_of_symbols = number_of_symbols
                        /\ row.halted = FALSE)
    IN  [i \in 1 .. Len(selected) |-> mysqlrow_to_turing_machine(selected[i])]

\* one turn of the while loop of DatabaseManager::new: the pool opens, or
\* the attempt is counted; after MAX_RETRIES attempts new returns None and
\* load_turing_machines returns through its outer None arm
DatabaseManagerNew ==
    /\ mediator.pc = "new"
    /\ mediator.connection_retries < MAX_RETRIES
    /\ \E pool \in {"Ok", "Err"} :
           mediator' =
               IF pool = "Ok"
               THEN [mediator EXCEPT !.db_option = "Some", !.pc = "select"]
               ELSE IF mediator.connection_retries + 1 < MAX_RETRIES
               THEN [mediator EXCEPT !.connection_retries = @ + 1]
               ELSE [mediator EXCEPT !.connection_retries = @ + 1,
                                     !.db_option = "None", !.pc = "returned"]
    /\ UNCHANGED <<generator_, enumerator, filter_, filter_threads, tm_runner,
                   database_manager_runner, execVars, twin, genVars, symVars,
                   tcVars, codecVars>>

\* the Some arm: select_turing_machines_to_run(number_of_states, 2) and the
\* match on its result
LoadSelect ==
    /\ mediator.pc = "select"
    /\ \E result \in {"Ok", "Err"} :
           IF result = "Ok"
           THEN LET turing_machines ==
                        select_turing_machines_to_run(
                            mediator.stored, mediator.number_of_states, 2)
                IN  mediator' =
                        IF Len(turing_machines) > 0
                        THEN [mediator EXCEPT !.tm_option = "Some",
                                              !.turing_machines = turing_machines,
                                              !.loaded = TRUE,
                                              !.pc = "returned"]
                        ELSE [mediator EXCEPT !.tm_option = "Some",
                                              !.pc = "returned"]
           ELSE mediator' = [mediator EXCEPT !.tm_option = "None",
                                             !.pc = "returned"]
    /\ UNCHANGED <<generator_, enumerator, filter_, filter_threads, tm_runner,
                   database_manager_runner, execVars, twin, genVars, symVars,
                   tcVars, codecVars>>

\* Mediator::new(number_of_states), and a database in any of its states
InitLoad ==
    /\ \E stored \in StoredTables :
           mediator = [pc |-> "new",
                       number_of_states |-> NumStates,
                       turing_machines |-> << >>,
                       loaded |-> FALSE,
                       stored |-> stored,
                       connection_retries |-> 0,
                       db_option |-> "pending",
                       tm_option |-> "pending"]
    /\ generator_ = [pc |-> "idle"]
    /\ enumerator = [pc |-> "idle"]
    /\ filter_ = [pc |-> "idle", rx_unfiltered_functions |-> << >>]
    /\ filter_threads = << >>
    /\ tm_runner = [pc |-> "idle"]
    /\ database_manager_runner = [pc |-> "idle"]
    /\ ExecIdle
    /\ GenIdle
    /\ SymIdle
    /\ TcIdle
    /\ CodecIdle

NextLoad == DatabaseManagerNew \/ LoadSelect

SpecLoad == InitLoad /\ [][NextLoad]_vars

\* the rows of unhalted machines of the mediator's number of states
UnhaltedStored ==
    SelectSeq(mediator.stored, LAMBDA row :
        /\ row.number_of_states = mediator.number_of_states
        /\ row.number_of_symbols = 2
        /\ row.halted = FALSE)

\* C22: load_turing_machines sets loaded and adopts the stored machines
\* exactly when the database was opened and the query returned at least one
\* unhalted machine of the mediator's number of states; when the database
\* cannot be opened or the query fails, loaded stays false and the list of
\* machines stays empty.
C22_LoadedIffStoredUnhalted ==
    /\ mediator.pc # "returned" =>
           mediator.loaded = FALSE /\ mediator.turing_machines = << >>
    /\ mediator.pc = "returned" =>
           /\ mediator.loaded = TRUE <=>
                  /\ mediator.db_option = "Some"
                  /\ mediator.tm_option = "Some"
                  /\ UnhaltedStored # << >>
           /\ mediator.loaded = TRUE =>
                  /\ Len(mediator.turing_machines) = Len(UnhaltedStored)
                  /\ \A i \in 1 .. Len(UnhaltedStored) :
                         LET machine == mediator.turing_machines[i]
                         IN  /\ machine.halted = FALSE
                             /\ machine.transition_function.number_of_states
                                    = mediator.number_of_states
                             /\ EncodeFunction(
                                    machine.transition_function,
                                    SortedKeys(DOMAIN machine.transition_function.transitions))
                                    = UnhaltedStored[i].transition_function
                             /\ machine.steps = UnhaltedStored[i].steps
           /\ mediator.loaded = FALSE => mediator.turing_machines = << >>
           /\ (mediator.db_option = "None" \/ mediator.tm_option = "None")
                  => mediator.loaded = FALSE

\* two unhalted machines were adopted from a table that also held halted
\* machines and machines of three states, after a failed attempt to connect
C22_AdoptedAfterRetry ==
    /\ mediator.pc = "returned"
    /\ mediator.loaded = TRUE
    /\ mediator.connection_retries >= 1
    /\ Len(mediator.turing_machines) = 2
    /\ Len(mediator.stored) = Len(RowSamples)

\* ---------------------------------------------------------------------------
\* The pool of TuringMachineRunner::run: par_iter_mut().for_each(execute) on
\* several workers.  A worker takes any machine nobody took, executes it
\* one loop iteration at a time, and takes another; the iterations of the
\* workers interleave in any order.
\* ---------------------------------------------------------------------------

\* the workers of the pool
NumWorkers == 2

\* the bundle of the execution the worker did before, used again
FilterRuntimeKept(previous) == previous

\* let mut filter_runtime = FilterRuntime::new() at the start of execute;
\* previous is the bundle of the execution the worker did before
FilterRuntimeOfExecution(previous) == NewFilterRuntime

WorkerOf(w) == tm_runner.workers[w]

\* a worker enters execute on a machine: the new bundle and the first
\* make_transition
WorkerTake(w) ==
    /\ tm_runner.pc = "execute"
    /\ WorkerOf(w).pc = "idle"
    /\ \E i \in (1 .. Len(tm_runner.turing_machines)) \ tm_runner.taken :
           tm_runner' =
               [tm_runner EXCEPT
                   !.taken = @ \cup {i},
                   !.ran_on[i] = w,
                   !.turing_machines[i] = make_transition(@),
                   !.workers[w] =
                       [pc |-> "loop", at |-> i,
                        filter_runtime |->
                            FilterRuntimeOfExecution(WorkerOf(w).filter_runtime)]]
    /\ UNCHANGED <<database_manager_runner, generator_, enumerator, filter_,
                   filter_threads, mediator, execVars, twin, genVars, symVars,
                   tcVars, codecVars>>

\* one iteration of the while loop of execute on worker w, or its exit
WorkerIteration(w) ==
    /\ tm_runner.pc = "execute"
    /\ WorkerOf(w).pc = "loop"
    /\ LET i == WorkerOf(w).at
           m == tm_runner.turing_machines[i]
           r == filter_all(WorkerOf(w).filter_runtime, m)
       IN  tm_runner' =
               IF ~LoopCondition(m)
               THEN [tm_runner EXCEPT !.workers[w].pc = "metrics"]
               ELSE IF r.verdict # "None"
               THEN [tm_runner EXCEPT
                        !.turing_machines[i] = [m EXCEPT !.filtered = r.verdict],
                        !.workers[w].filter_runtime = r.filter,
                        !.workers[w].pc = "metrics"]
               ELSE [tm_runner EXCEPT
                        !.turing_machines[i] = make_transition(m),
                        !.workers[w].filter_runtime = r.filter]
    /\ UNCHANGED <<database_manager_runner, generator_, enumerator, filter_,
                   filter_threads, mediator, execVars, twin, genVars, symVars,
                   tcVars, codecVars>>

\* set_score, and execute returns
WorkerMetrics(w) ==
    /\ tm_runner.pc = "execute"
    /\ WorkerOf(w).pc = "metrics"
    /\ tm_runner' =
           [tm_runner EXCEPT
               !.turing_machines[WorkerOf(w).at] = set_score(@),
               !.executed = @ \cup {WorkerOf(w).at},
               !.workers[w].pc = "idle"]
    /\ UNCHANGED <<database_manager_runner, generator_, enumerator, filter_,
                   filter_threads, mediator, execVars, twin, genVars, symVars,
                   tcVars, codecVars>>

\* the machines given to run: any functions, the same one more than once too
InitWorkers ==
    /\ \E fs \in FunctionSequences(MaxDelivered) :
           tm_runner =
               [pc |-> "execute",
                turing_machines |-> [i \in 1 .. Len(fs) |-> NewTuringMachine(fs[i])],
                inputs |-> fs, taken |-> {}, executed |-> {},
                ran_on |-> [i \in 1 .. Len(fs) |-> 0],
                workers |-> [w \in 1 .. NumWorkers |->
                                [pc |-> "idle", at |-> 0,
                                 filter_runtime |-> NewFilterRuntime]]]
    /\ database_manager_runner = [pc |-> "idle"]
    /\ generator_ = [pc |-> "idle"]
    /\ enumerator = [pc |-> "idle"]
    /\ filter_ = [pc |-> "idle", rx_unfiltered_functions |-> << >>]
    /\ filter_threads = << >>
    /\ mediator = [pc |-> "idle"]
    /\ ExecIdle
    /\ GenIdle
    /\ SymIdle
    /\ TcIdle
    /\ CodecIdle

NextWorkers ==
    \E w \in 1 .. NumWorkers :
        WorkerTake(w) \/ WorkerIteration(w) \/ WorkerMetrics(w)

SpecWorkers == InitWorkers /\ [][NextWorkers]_vars

\* C21: the verdict, the halted flag, the step count and the score that
\* execute leaves in a machine depend on the machine's transition function
\* alone: they are those of executing the function by itself, whichever
\* machines the same worker executed before and whatever the other workers
\* execute meanwhile.
C21_ExecutionsIndependent ==
    \A i \in tm_runner.executed :
        LET alone == ExecutedMachines[tm_runner.inputs[i]]
            machine == tm_runner.turing_machines[i]
        IN  /\ machine.filtered = alone.filtered
            /\ machine.halted = alone.halted
            /\ machine.steps = alone.steps
            /\ machine.score = alone.score

\* one worker executed the same halting function twice, one run after the
\* other, while the other worker executed a function that a filter stops
C21_SameFunctionTwiceOnOneWorker ==
    /\ tm_runner.executed = 1 .. MaxDelivered
    /\ tm_runner.inputs[1] = tm_runner.inputs[2]
    /\ tm_runner.ran_on[1] = tm_runner.ran_on[2]
    /\ tm_runner.ran_on[3] # tm_runner.ran_on[1]
    /\ tm_runner.turing_machines[2].halted = TRUE
    /\ tm_runner.turing_machines[2].steps >= 3
    /\ tm_runner.turing_machines[3].filtered # "None"

\* ---------------------------------------------------------------------------
\* The runtime filters, one observed step at a time
\* ---------------------------------------------------------------------------

\* an iteration of the loop of execute consults the filters on tm
FiltersConsulted == pc = "loop" /\ LoopCondition(tm)

\* the machine of two states that visits a fresh cell on each of its steps
LongEscapeeMachine ==
    [number_of_states |-> 2, number_of_symbols |-> 2,
     transitions |->
        (<<0, 0>> :> <<1, 1, RIGHT>>) @@ (<<0, 1>> :> <<1, 1, RIGHT>>) @@
        (<<1, 0>> :> <<0, 0, RIGHT>>) @@ (<<1, 1>> :> <<1, 1, LEFT>>)]

\* C31: the long-escapee counter counts the consecutive observed steps that
\* visited a fresh cell and goes back to 0 on an observed step that did not;
\* the verdict is LongEscapee exactly when the count exceeds the number of
\* states; the machine LongEscapeeMachine is rejected as LongEscapee within
\* Q + 1 steps.
C31_LongEscapeeCounts ==
    /\ [][FiltersConsulted =>
            LET Q == tm.transition_function.number_of_states
                count == IF tm.tape_increased = TRUE
                         THEN filter_runtime.counter + 1 ELSE 0
            IN  /\ filter_runtime'.counter = count
                /\ tm'.filtered = "LongEscapee" <=> count > Q
                /\ tm'.filtered = "LongEscapee" => count = Q + 1]_vars
    /\ [](/\ filter_runtime.counter <= tm.transition_function.number_of_states + 1
          /\ (pc = "done" /\ resumes = 0
                  /\ tm.transition_function = LongEscapeeMachine)
                 => /\ tm.filtered = "LongEscapee"
                    /\ tm.steps <= tm.transition_function.number_of_states + 1)

\* LongEscapeeMachine was stopped on its third fresh cell in a row
C31_ThirdFreshCellRejected ==
    /\ pc = "done"
    /\ resumes = 0
    /\ tm.transition_function = LongEscapeeMachine
    /\ tm.filtered = "LongEscapee"
    /\ tm.steps = 3
    /\ filter_runtime.counter = 3

\* the configurations of the first n steps of the run of tf from the blank
\* tape, by make_transition alone
Observed(tf, n) ==
    [k \in 1 .. n |-> EncodeMachine(RunFor(NewTuringMachine(tf), k))]

\* C32: the cycler filter rejects at the first observed step whose
\* configuration (tape, head position, state) is that of an earlier observed
\* step of the run, and at no other step; the configuration of every step
\* that is not rejected is appended to the history.
C32_CyclerFirstRepetition ==
    /\ []((pc = "loop" /\ resumes = 0) =>
            /\ filter_runtime.history = Observed(tm.transition_function, tm.steps - 1)
            /\ \A i, j \in 1 .. Len(filter_runtime.history) :
                   filter_runtime.history[i] = filter_runtime.history[j] => i = j)
    /\ [][(FiltersConsulted /\ resumes = 0) =>
            LET earlier == Observed(tm.transition_function, tm.steps - 1)
                repeated == \E k \in 1 .. Len(earlier) : earlier[k] = EncodeMachine(tm)
            IN  /\ tm'.filtered = "Cycler" <=> repeated
                /\ tm'.filtered = "None" =>
                       filter_runtime'.history =
                           Append(filter_runtime.history, EncodeMachine(tm))]_vars

\* a run stopped as Cycler on a configuration seen at least three observed
\* steps before
C32_LongCycleRejected ==
    /\ pc = "done"
    /\ resumes = 0
    /\ tm.filtered = "Cycler"
    /\ Len(filter_runtime.history) >= 4
    /\ \E k \in 1 .. Len(filter_runtime.history) - 3 :
           filter_runtime.history[k] = EncodeMachine(tm)

\* ---------------------------------------------------------------------------
\* The arrivals of the translated-cycler filter
\* ---------------------------------------------------------------------------

\* an iteration of the watched loop consults FilterTranslatedCyclers on tm
WatchConsulted == pc = "watch" /\ tm.halted # TRUE /\ tm.steps < MaxWatchedSteps

\* the key (current_state, direction of growth) of a step on a fresh cell
GrowthKey(m) == <<m.current_state, GrowthDirection(m)>>

\* the cells at the growing end of a tape: the last n when the tape grows to
\* the RIGHT, the first n when it grows to the LEFT
EndCells(tape, direction, n) ==
    LET cells == IF n < Len(tape) THEN n ELSE Len(tape)
    IN  IF direction = RIGHT
        THEN SubSeq(tape, Len(tape) - cells + 1, Len(tape))
        ELSE SubSeq(tape, 1, cells)

\* C33 as stated: the filter decides on the second arrival.  The first
\* arrival on a fresh cell under a key stores a snapshot; on the second
\* arrival under the key the cells at the growing end of the stored and of
\* the current tape, as many as the tape grew in between, are compared: the
\* machine is rejected if they are equal, and otherwise the current arrival
\* replaces the stored one; a step that visited no fresh cell never rejects.
C33_DecidesOnSecondArrival ==
    [][WatchConsulted =>
          LET key == GrowthKey(tm)
              f == filter_translated_cyclers
          IN  IF tm.tape_increased = FALSE THEN pc' = "watch"
              ELSE IF key \notin DOMAIN f.history
              THEN /\ pc' = "watch"
                   /\ filter_translated_cyclers'.history[key]
                          = <<tm.head_position, tm.steps>>
              ELSE IF key \notin DOMAIN f.possible_cycler
              THEN LET stored == RunFor(NewTuringMachine(tm.transition_function),
                                        f.history[key][2]).tape
                       L == Len(tm.tape) - Len(stored)
                       match == EndCells(tm.tape, key[2], L)
                                    = EndCells(stored, key[2], L)
                   IN  /\ pc' = "watch_rejected" <=> match
                       /\ ~match => filter_translated_cyclers'.history[key]
                                        = <<tm.head_position, tm.steps>>
              ELSE TRUE]_vars

\* C33 amended: the filter decides on the third arrival.  The first arrival
\* on a fresh cell under a key is stored in history and the second in
\* possible_cycler, and neither rejects; from the third arrival on the
\* machine is rejected exactly when the two gaps in steps are equal, the two
\* gaps in position are equal and the tape from the first arrival on equals
\* the tape from the second arrival on, cell by cell up to the head;
\* otherwise the second arrival becomes the history entry and the current
\* one the possible cycler; a step that visited no fresh cell never rejects
\* and changes nothing.
C33_DecidesOnThirdArrival ==
    [][WatchConsulted =>
          LET key == GrowthKey(tm)
              f == filter_translated_cyclers
              now == <<tm.head_position, tm.steps>>
          IN  IF tm.tape_increased = FALSE
              THEN pc' = "watch" /\ filter_translated_cyclers' = f
              ELSE IF key \notin DOMAIN f.history
              THEN /\ pc' = "watch"
                   /\ filter_translated_cyclers'.history[key] = now
                   /\ filter_translated_cyclers'.possible_cycler = f.possible_cycler
              ELSE IF key \notin DOMAIN f.possible_cycler
              THEN /\ pc' = "watch"
                   /\ filter_translated_cyclers'.history = f.history
                   /\ filter_translated_cyclers'.possible_cycler[key] = now
              ELSE LET first == f.history[key]
                       second == f.possible_cycler[key]
                       factor == IF key[2] = RIGHT THEN 1 ELSE -1
                       same ==
                           /\ tm.steps - second[2] = second[2] - first[2]
                           /\ tm.head_position - second[1] = second[1] - first[1]
                           /\ \A i \in 0 .. (tm.head_position - second[1]) :
                                  tm.tape[first[1] + i * factor + 1]
                                      = tm.tape[second[1] + i * factor + 1]
                   IN  /\ pc' = "watch_rejected" <=> same
                       /\ same => filter_translated_cyclers' = f
                       /\ ~same =>
                              /\ filter_translated_cyclers'.history[key] = second
                              /\ filter_translated_cyclers'.possible_cycler[key] = now]_vars

\* a machine rejected on an arrival whose history entry had been replaced
\* by an earlier possible cycler
C33_RejectedAfterReplacement ==
    /\ pc = "watch_rejected"
    /\ tm.tape_increased = TRUE
    /\ GrowthKey(tm) \in DOMAIN filter_translated_cyclers.possible_cycler
    /\ \E earlier \in 1 .. tm.steps :
           LET m == RunFor(NewTuringMachine(tm.transition_function), earlier)
           IN  /\ m.tape_increased = TRUE
               /\ GrowthKey(m) = GrowthKey(tm)
               /\ earlier < filter_translated_cyclers.history[GrowthKey(tm)][2]

\* ---------------------------------------------------------------------------
\* tests::filter_translated_cycler: a machine of five states stepped from the
\* blank tape, the translated-cycler filter consulted after each step
\* ---------------------------------------------------------------------------

\* let maximum_steps = 10000
maximum_steps == 10000

\* the transition function the test builds
KnownTranslatedCycler ==
    [number_of_states |-> 5, number_of_symbols |-> 2,
     transitions |->
        (<<0, 0>> :> <<1, 1, RIGHT>>) @@ (<<0, 1>> :> <<4, 0, LEFT>>) @@
        (<<1, 0>> :> <<2, 1, LEFT>>)  @@ (<<1, 1>> :> <<0, 1, LEFT>>) @@
        (<<2, 0>> :> <<3, 1, LEFT>>)  @@ (<<2, 1>> :> <<1, 1, LEFT>>) @@
        (<<3, 0>> :> <<1, 1, RIGHT>>) @@ (<<3, 1>> :> <<StateHalt, 1, RIGHT>>) @@
        (<<4, 0>> :> <<4, 0, RIGHT>>) @@ (<<4, 1>> :> <<1, 1, RIGHT>>)]

\* turing_machine.make_transition() before the loop
TestStart ==
    /\ pc = "test_ready"
    /\ tm' = make_transition(tm)
    /\ pc' = "test"
    /\ UNCHANGED <<filter_runtime, resumes, twin, tcVars, codecVars, pipeVars,
                   genVars, symVars>>

\* one iteration of the while loop of the test: break when the filter
\* fails, make_transition otherwise
TestIteration ==
    /\ pc = "test"
    /\ tm.steps < maximum_steps
    /\ LET r == translated_cyclers_filter(filter_translated_cyclers, tm)
       IN  /\ filter_translated_cyclers' = r.filter
           /\ IF r.passed
              THEN /\ tm' = make_transition(tm)
                   /\ pc' = "test"
              ELSE /\ tm' = tm
                   /\ pc' = "test_rejected"
    /\ UNCHANGED <<filter_runtime, resumes, twin, codecVars, pipeVars, genVars,
                   symVars>>

InitTest ==
    /\ tm = NewTuringMachine(KnownTranslatedCycler)
    /\ filter_runtime = NewFilterRuntime
    /\ pc = "test_ready"
    /\ resumes = 0
    /\ twin = tm
    /\ TcIdle
    /\ CodecIdle
    /\ PipeIdle
    /\ GenIdle
    /\ SymIdle

NextTest == TestStart \/ TestIteration

SpecTest == InitTest /\ [][NextTest]_vars

\* C34: KnownTranslatedCycler, stepped from the blank tape with
\* FilterTranslatedCyclers::filter consulted after each step, is rejected by
\* the filter before maximum_steps steps and before it reaches Halt: the
\* loop never gets to maximum_steps and the machine never halts.
C34_KnownCyclerRejectedInTime ==
    /\ tm.steps < maximum_steps
    /\ tm.halted = FALSE

\* ---------------------------------------------------------------------------
\* The counters of FilterGenerate during the enumeration
\* ---------------------------------------------------------------------------

\* the complete functions that the functions waiting in the queue stand for
Pending ==
    LET fg == filter_generate
        Waiting(n) == { i \in 1 .. Len(queue) :
                          Cardinality(DOMAIN queue[i].transitions) = n }
        RECURSIVE Sum(_)
        Sum(n) == IF n = 0 THEN 0
                  ELSE Cardinality(Waiting(n))
                           * Pow(fg.maximum_possibilies_for_entry,
                                 fg.maximum_entries - n)
                       + Sum(n - 1)
    IN  Sum(fg.maximum_entries)

\* C35: the three rejection counters, the complete functions placed in
\* batches and the functions still to be extended add up to
\* (Q*|Sigma|*|D| + 1)^(Q*|Sigma|) at every point of the enumeration, so
\* that at its end the counters and the placed functions alone do; adding
\* halting_skippers gives ((Q+1)*|Sigma|*|D|)^(Q*|Sigma|), the total the
\* percentages are taken of.
C35_CounterConservation ==
    gpc \in {"bfs", "returned"} =>
        LET fg == filter_generate
            rejected == fg.start_state_loopers + fg.neighbour_state_loopers
                            + fg.naive_beavers
            reduced == Pow(NumStates * Len(ALPHABET) * Len(DIRECTIONS) + 1,
                           NumStates * Len(ALPHABET))
            total == Pow((NumStates + 1) * Len(ALPHABET) * Len(DIRECTIONS),
                         NumStates * Len(ALPHABET))
        IN  /\ rejected + Pending + Len(Placed) = reduced
            /\ gpc = "returned" => rejected + Len(Placed) = reduced
            /\ rejected + Pending + Len(Placed) + fg.halting_skippers = total
            /\ fg.turing_machines_size = total

\* the enumeration has ended with rejections counted by each of the filters
C35_AllCountersUsed ==
    /\ gpc = "returned"
    /\ filter_generate.start_state_loopers > 0
    /\ filter_generate.neighbour_state_loopers > 0
    /\ filter_generate.naive_beavers > 0
    /\ Len(Placed) > BATCH_SIZE

\* ---------------------------------------------------------------------------
\* Rejection of a partial function and of its extensions
\* ---------------------------------------------------------------------------

\* the keys of tf are the first keys of the order of the enumeration
FilledInKeyOrder(tf) ==
    \E n \in 0 .. tf.number_of_states * Len(ALPHABET) :
        DOMAIN tf.transitions = {KeyOrder(tf.number_of_states)[i] : i \in 1 .. n}

\* the functions that give values to further keys of tf and keep its entries
Extensions(tf) ==
    LET q == tf.number_of_states
        free == KeysOf(q) \ DOMAIN tf.transitions
    IN  UNION { { [tf EXCEPT !.transitions =
                      [k \in DOMAIN tf.transitions \cup keys |->
                          IF k \in keys THEN f[k] ELSE tf.transitions[k]]] :
                    f \in [keys -> AllValues(q)] }
                : keys \in (SUBSET free) \ {{}} }

\* C36: a partial function with its keys filled in the order of the
\* enumeration that FilterGenerate::filter_all rejects has no extension that
\* filter_all accepts, so no complete function that passes the generation
\* filters lies below a function at which the enumeration was cut.
C36_RejectionIsPrefixMonotone ==
    (gpc = "generate_rejected" /\ FilledInKeyOrder(queue[1])) =>
        \A e \in Extensions(queue[1]) :
            /\ generate_filter_all(filter_generate, e).passed = FALSE
            /\ IsComplete(e) => ~PassesGenerateFilters(e)

\* a function of three entries in key order was rejected for its neighbour
\* loop, and has extensions
C36_ThreeEntryPrefixRejected ==
    /\ gpc = "generate_rejected"
    /\ FilledInKeyOrder(queue[1])
    /\ Cardinality(DOMAIN queue[1].transitions) = 3
    /\ filter_generate.neighbour_state_loopers > 0
    /\ Extensions(queue[1]) # {}

\* ---------------------------------------------------------------------------
\* The machines still buffered when the executed channel closes
\* ---------------------------------------------------------------------------

\* C37: every machine receive_and_insert_turing_machines took from the
\* executed channel has been passed to batch_insert_turing_machines when the
\* task ends at the end of the channel, the machines of a last group below
\* DATABASE_BATCH_SIZE included.
C37_ReceivedAreInserted ==
    (database_manager_runner.pc = "returned"
     /\ database_manager_runner.end_of_channel)
        => /\ database_manager_runner.inserted = database_manager_runner.received
           /\ database_manager_runner.turing_machines = << >>

\* ---------------------------------------------------------------------------
\* The batches between the enumeration thread and the Generator
\* ---------------------------------------------------------------------------

\* the functions the batches of PipeBatchSet hold
PipeFunctions == UNION { { b[i] : i \in 1 .. Len(b) } : b \in PipeBatchSet }

\* a sequence of batches as one sequence of functions
RECURSIVE Concat(_)
Concat(batches) ==
    IF batches = << >> THEN << >> ELSE Head(batches) \o Concat(Tail(batches))

Occurrences(fs, f) == Cardinality({ i \in 1 .. Len(fs) : fs[i] = f })

\* what the thread of FilterCompile::filter sends for the batch b, the same
\* for every iteration order of the HashMaps
FilterResult(b) == (CHOOSE o \in FilterOutcomes[b] : TRUE).transition_functions

\* for a function f: how often the filter results of the batches that are
\* still to be sent, queued or being filtered hold it, plus how often the
\* results waiting to be sent, those queued for the Generator and the
\* functions the Generator has collected hold it
Accounted(f) ==
    LET unfiltered ==
            enumerator.batches \o filter_.rx_unfiltered_functions
            \o SelectSeq([i \in 1 .. Len(filter_threads) |->
                              IF filter_threads[i].pc = "running"
                              THEN filter_threads[i].transition_functions
                              ELSE << >>], LAMBDA b : b # << >>)
        waiting ==
            [i \in 1 .. Len(filter_threads) |->
                IF filter_threads[i].pc = "send"
                THEN filter_threads[i].transition_functions ELSE << >>]
    IN  Occurrences(Concat([i \in 1 .. Len(unfiltered) |->
                               FilterResult(unfiltered[i])]), f)
        + Occurrences(Concat(waiting), f)
        + Occurrences(Concat(generator_.rx_filtered_functions), f)
        + Occurrences(generator_.transition_functions, f)

\* the for loop of Generator::receive_filtered has ended
ReceiveFilteredEnded ==
    generator_.pc \in {"returned", "panicked"} /\ enumerator.pc # "unspawned"

C39_ResumeEqualsFreshRun ==
    (pc = "done" /\ resumes > 0) =>
        LET fresh == execute(NewTuringMachine(tm.transition_function))
        IN  /\ tm.halted = fresh.halted
            /\ tm.steps = fresh.steps
            /\ tm.score = fresh.score
            /\ tm.filtered = fresh.filtered

\* ---------------------------------------------------------------------------
\* The usize arithmetic of the Generator for the supported numbers of states
\* ---------------------------------------------------------------------------

\* C40: the total ((Q+1)*4)^(2Q) that Generator::new has computed with
\* get_maximum_no_of_transition_functions is within the 64-bit unsigned
\* range, and so are the total, the difference and the product
\* filtered_total * 100 that filter_status has computed when receive_filtered
\* ended.
C40_TotalsWithinUsize ==
    LET total == get_maximum_no_of_transition_functions(mediator.number_of_states)
        filtered_total ==
            UsizeSub(total.value, Len(generator_.transition_functions))
    IN  /\ generator_.pc # "new" => ~total.overflow
        /\ ReceiveFilteredEnded =>
               /\ ~filtered_total.overflow
               /\ ~UsizeMul(filtered_total.value, 100).overflow

=============================================================================
